---------------------------- MODULE Spec2Model ----------------------------
(***************************************************************************)
(* ralph-task: reconciliation of a PRD document (stories) with a Trello    *)
(* board (cards).  The module models the identifier codec, the status and  *)
(* label mappings, the story fingerprint, the planner (SyncEngine          *)
(* buildPlan), the applier (applyPlan / buildSnapshot) and the persisted   *)
(* incremental state (syncWithStateFile, loadSyncState, saveSyncState).    *)
(*                                                                         *)
(* Strings are TLC strings.  An ISO-8601 timestamp is modelled by the      *)
(* number Date.parse gives for it; a negative number stands for a string   *)
(* Date.parse cannot read (NaN).  A sha256 digest is modelled by the value *)
(* that was hashed (collisions aside).                                     *)
(***************************************************************************)
EXTENDS Integers, Sequences, FiniteSets, TLC

(***************************************************************************)
(* Bounds of the model.                                                    *)
(***************************************************************************)
MaxEdits == 2
MaxTime == 1

Null == [null |-> TRUE]

(***************************************************************************)
(* Generic sequence helpers.                                               *)
(***************************************************************************)
Range(s) == {s[i] : i \in DOMAIN s}

(***************************************************************************)
(* String.prototype.localeCompare on the strings of the model: compared    *)
(* character by character in collation order (punctuation, digits,         *)
(* letters; letter case ignored at the first level).                       *)
(***************************************************************************)
CollationOrder == " _-,;:!?.'()[]0123456789abcdefghijklmnopqrstuvwxyz"

FoldCase(c) ==
    CASE c = "A" -> "a" [] c = "B" -> "b" [] c = "C" -> "c" [] c = "D" -> "d"
      [] c = "E" -> "e" [] c = "F" -> "f" [] c = "G" -> "g" [] c = "H" -> "h"
      [] c = "I" -> "i" [] c = "J" -> "j" [] c = "K" -> "k" [] c = "L" -> "l"
      [] c = "M" -> "m" [] c = "N" -> "n" [] c = "O" -> "o" [] c = "P" -> "p"
      [] c = "Q" -> "q" [] c = "R" -> "r" [] c = "S" -> "s" [] c = "T" -> "t"
      [] c = "U" -> "u" [] c = "V" -> "v" [] c = "W" -> "w" [] c = "X" -> "x"
      [] c = "Y" -> "y" [] c = "Z" -> "z" [] OTHER -> c

RECURSIVE CharRankFrom(_, _)
CharRankFrom(c, i) ==
    IF i > Len(CollationOrder) THEN i
    ELSE IF SubSeq(CollationOrder, i, i) = c THEN i
    ELSE CharRankFrom(c, i + 1)

\* the rank of every character of the model's strings, computed once
Alphabet == CollationOrder \o "ABCDEFGHIJKLMNOPQRSTUVWXYZ"

CharRankTable ==
    [c \in {SubSeq(Alphabet, i, i) : i \in 1..Len(Alphabet)} |->
        CharRankFrom(FoldCase(c), 1)]

CharRank(c) ==
    IF c \in DOMAIN CharRankTable THEN CharRankTable[c] ELSE Len(CollationOrder) + 1

RECURSIVE localeCompareFrom(_, _, _)
localeCompareFrom(left, right, i) ==
    IF i > Len(left) /\ i > Len(right) THEN 0
    ELSE IF i > Len(left) THEN -1
    ELSE IF i > Len(right) THEN 1
    ELSE LET l == CharRank(SubSeq(left, i, i))
             r == CharRank(SubSeq(right, i, i))
         IN IF l < r THEN -1
            ELSE IF l > r THEN 1
            ELSE localeCompareFrom(left, right, i + 1)

\* strings that differ in letter case only: at the first difference the lower
\* case letter comes first
RECURSIVE caseCompareFrom(_, _, _)
caseCompareFrom(left, right, i) ==
    IF i > Len(left) \/ i > Len(right) THEN 0
    ELSE IF SubSeq(left, i, i) = SubSeq(right, i, i) THEN caseCompareFrom(left, right, i + 1)
    ELSE IF FoldCase(SubSeq(left, i, i)) = SubSeq(left, i, i) THEN -1
    ELSE 1

localeCompare(left, right) ==
    IF left = right THEN 0
    ELSE IF localeCompareFrom(left, right, 1) # 0 THEN localeCompareFrom(left, right, 1)
    ELSE caseCompareFrom(left, right, 1)

(***************************************************************************)
(* Array.prototype.sort is stable: an item is inserted after the last      *)
(* element that does not compare greater.  Items are <<key, value>> pairs  *)
(* compared by key.                                                        *)
(***************************************************************************)
RECURSIVE InsertSorted(_, _)
InsertSorted(sorted, item) ==
    IF sorted = <<>> THEN <<item>>
    ELSE IF localeCompare(sorted[Len(sorted)][1], item[1]) <= 0
         THEN Append(sorted, item)
         ELSE Append(InsertSorted(SubSeq(sorted, 1, Len(sorted) - 1), item),
                     sorted[Len(sorted)])

RECURSIVE SortFrom(_, _, _)
SortFrom(pairs, i, acc) ==
    IF i > Len(pairs) THEN acc
    ELSE SortFrom(pairs, i + 1, InsertSorted(acc, pairs[i]))

SortPairs(pairs) ==
    LET sorted == SortFrom(pairs, 1, <<>>)
    IN [i \in DOMAIN sorted |-> sorted[i][2]]

sortStrings(values) == SortPairs([i \in DOMAIN values |-> <<values[i], values[i]>>])

\* The elements of a set of strings, in sorted order.
RECURSIVE SetToSeq(_)
SetToSeq(S) ==
    IF S = {} THEN <<>>
    ELSE LET x == CHOOSE y \in S : \A z \in S : localeCompare(y, z) <= 0
         IN <<x>> \o SetToSeq(S \ {x})

\* [...new Set(values)]: first occurrences, in order.
RECURSIVE Dedupe(_)
Dedupe(values) ==
    IF values = <<>> THEN <<>>
    ELSE LET init == Dedupe(SubSeq(values, 1, Len(values) - 1))
             last == values[Len(values)]
         IN IF last \in Range(init) THEN init ELSE Append(init, last)

areArraysEqual(left, right) == left = right

areSetsEqual(left, right) == areArraysEqual(sortStrings(left), sortStrings(right))

areChecklistItemsEqual(left, right) ==
    /\ Len(left) = Len(right)
    /\ \A i \in DOMAIN left :
          left[i].name = right[i].name /\ left[i].checked = right[i].checked

(***************************************************************************)
(* Mapping configuration (the mapping of the test suite).                  *)
(***************************************************************************)
Mapping ==
    [ storyPrefix |-> "US",
      idPattern |-> "{prefix}-{number:3}",
      cardTitleFormat |-> "[{id}] {title}",
      dependsOnLabelPrefix |-> "s:",
      statusToList |-> [open |-> "To Do", in_progress |-> "In Progress", done |-> "Done"],
      acceptanceCriteriaChecklistName |-> "Acceptance Criteria" ]

\* A mapping of another project, used for foreign state files.
OtherMapping == [Mapping EXCEPT !.dependsOnLabelPrefix = "dep:"]

StoryStatus == {"open", "in_progress", "done"}
StatusEntries == <<"open", "in_progress", "done">>

(***************************************************************************)
(* Identifier codec (story-id.ts) for idPattern "{prefix}-{number:3}" and  *)
(* cardTitleFormat "[{id}] {title}".                                       *)
(***************************************************************************)
Padding == 3
Digits == {"0", "1", "2", "3", "4", "5", "6", "7", "8", "9"}

\* idPattern.regexSource matches text at position i: prefix, "-", \d{3}.
IdRegexMatchesAt(text, i) ==
    LET p == Mapping.storyPrefix
        n == Len(p)
    IN /\ i + n + Padding <= Len(text)
       /\ SubSeq(text, i, i + n - 1) = p
       /\ SubSeq(text, i + n, i + n) = "-"
       /\ \A k \in 1..Padding : SubSeq(text, i + n + k, i + n + k) \in Digits

IdLength == Len(Mapping.storyPrefix) + 1 + Padding

\* idRegex.test(id): ^regexSource$
IdRegexTest(id) == Len(id) = IdLength /\ IdRegexMatchesAt(id, 1)

\* cardTitle.matchAll(idSearchRegex): the non-overlapping matches, left to right.
RECURSIVE IdMatchesFrom(_, _)
IdMatchesFrom(text, i) ==
    IF i > Len(text) THEN <<>>
    ELSE IF IdRegexMatchesAt(text, i)
         THEN <<SubSeq(text, i, i + IdLength - 1)>> \o IdMatchesFrom(text, i + IdLength)
         ELSE IdMatchesFrom(text, i + 1)

\* the white space String.prototype.trim removes, and the line terminators the
\* dot of a regular expression does not match
WhiteSpace == {" ", "\t", "\n", "\r"}
LineTerminators == {"\n", "\r"}

RECURSIVE TrimStart(_)
TrimStart(text) ==
    IF Len(text) > 0 /\ SubSeq(text, 1, 1) \in WhiteSpace
    THEN TrimStart(SubSeq(text, 2, Len(text)))
    ELSE text

RECURSIVE TrimEnd(_)
TrimEnd(text) ==
    IF Len(text) > 0 /\ SubSeq(text, Len(text), Len(text)) \in WhiteSpace
    THEN TrimEnd(SubSeq(text, 1, Len(text) - 1))
    ELSE text

Trim(text) == TrimEnd(TrimStart(text))

\* String(value) of a non-negative integer
RECURSIVE DecimalString(_)
DecimalString(n) ==
    IF n < 10 THEN SubSeq("0123456789", n + 1, n + 1)
    ELSE DecimalString(n \div 10) \o SubSeq("0123456789", (n % 10) + 1, (n % 10) + 1)

RECURSIVE padStart(_, _, _)
padStart(text, width, fill) ==
    IF Len(text) >= width THEN text ELSE padStart(fill \o text, width, fill)

\* A number is [int, half]: its value is int + half / 2, half in {0, 1}.
isInteger(value) == value.half = 0
isNegative(value) == value.int < 0

\* formatId where the number is padded to one digit less
formatIdShort(value) ==
    IF ~isInteger(value) \/ isNegative(value)
    THEN [threw |-> TRUE, value |-> "Story number must be a non-negative integer"]
    ELSE IF Len(DecimalString(value.int)) > Padding
    THEN [threw |-> TRUE, value |-> "Story number exceeds padding length"]
    ELSE [threw |-> FALSE,
          value |-> Mapping.storyPrefix \o "-"
                       \o padStart(DecimalString(value.int), Padding - 1, "0")]

\* The result of formatId: threw is TRUE when it throws StoryIdFormatError.
formatId(value) ==
    IF ~isInteger(value) \/ isNegative(value)
    THEN [threw |-> TRUE, value |-> "Story number must be a non-negative integer"]
    ELSE IF Len(DecimalString(value.int)) > Padding
    THEN [threw |-> TRUE, value |-> "Story number exceeds padding length"]
    ELSE [threw |-> FALSE,
          value |-> Mapping.storyPrefix \o "-"
                       \o padStart(DecimalString(value.int), Padding, "0")]

\* The result of formatCardTitle: threw is TRUE when it throws StoryIdFormatError.
formatCardTitle(id, title) ==
    [ threw |-> ~IdRegexTest(id),
      value |-> "[" \o id \o "] " \o title ]

parseCardTitle(cardTitle) ==
    LET matches == IdMatchesFrom(cardTitle, 1)
        \* cardTitleSpec.regex: ^\[(?<id>...)\] (?<title>.*?)$
        canonical ==
            /\ Len(cardTitle) >= IdLength + 3
            /\ SubSeq(cardTitle, 1, 1) = "["
            /\ IdRegexMatchesAt(cardTitle, 2)
            /\ SubSeq(cardTitle, IdLength + 2, IdLength + 3) = "] "
            /\ \A k \in (IdLength + 4)..Len(cardTitle) :
                  SubSeq(cardTitle, k, k) \notin LineTerminators
    IN IF Len(matches) = 0
       THEN [status |-> "missing", reason |-> "No story ID found in card title",
             matches |-> matches, title |-> cardTitle]
       ELSE IF Len(matches) > 1
       THEN [status |-> "ambiguous", reason |-> "Multiple story IDs found in card title",
             matches |-> matches, title |-> cardTitle]
       ELSE IF ~canonical
       THEN [status |-> "missing", reason |-> "Story ID not in canonical card title format",
             matches |-> matches, title |-> cardTitle]
       ELSE [status |-> "ok",
             id |-> SubSeq(cardTitle, 2, IdLength + 1),
             title |-> Trim(SubSeq(cardTitle, IdLength + 4, Len(cardTitle)))]

(***************************************************************************)
(* Timestamps (sync-engine compareIsoTimestamps, resolveTimestampComparison)*)
(***************************************************************************)
IsNaN(time) == time < 0

\* a comparison with its operands exchanged
compareIsoTimestampsSwapped(left, right) ==
    IF IsNaN(left) \/ IsNaN(right) THEN 0 ELSE right - left

compareIsoTimestamps(left, right) ==
    IF IsNaN(left) \/ IsNaN(right) THEN 0 ELSE left - right

\* a tie-break that ignores the configured preference
resolveTimestampComparisonNoPrefer(comparison, prefer) == comparison

resolveTimestampComparison(comparison, prefer) ==
    IF comparison # 0 THEN comparison
    ELSE IF prefer = "prd" THEN 1
    ELSE IF prefer = "trello" THEN -1
    ELSE 0

(***************************************************************************)
(* A JavaScript Map built by set() calls over a sequence of entries: the   *)
(* last entry of a key wins.  Modelled as a function on the keys.          *)
(***************************************************************************)
RECURSIVE LastIndexWhere(_, _, _, _)
LastIndexWhere(entries, field, key, i) ==
    IF i = 0 THEN 0
    ELSE IF entries[i][field] = key THEN i
    ELSE LastIndexWhere(entries, field, key, i - 1)

MapOf(entries, keyField, valueField) ==
    [k \in {entries[i][keyField] : i \in DOMAIN entries} |->
        entries[LastIndexWhere(entries, keyField, k, Len(entries))][valueField]]

Has(map, key) == key \in DOMAIN map

(***************************************************************************)
(* createStatusMapping (sync-engine): status -> list id, list id -> status *)
(***************************************************************************)
StatusMatches(lists, listName) ==
    LET openMatches == SelectSeq(lists, LAMBDA list : list.name = listName /\ ~list.closed)
    IN IF Len(openMatches) > 0 THEN openMatches
       ELSE SelectSeq(lists, LAMBDA list : list.name = listName)

\* the first list with the name instead of the one with the smallest id
StatusChosenFirst(lists, listName) == StatusMatches(lists, listName)[1].id

StatusChosen(lists, listName) ==
    LET matches == StatusMatches(lists, listName)
    IN sortStrings([i \in DOMAIN matches |-> matches[i].id])[1]

StatusIssuesOf(lists, status, listName) ==
    LET matches == StatusMatches(lists, listName)
    IN IF Len(matches) = 0
       THEN <<"No Trello list found for status '" \o status \o "' (" \o listName \o ")">>
       ELSE IF Len(matches) > 1
       THEN <<"Multiple Trello lists found for status '" \o status \o "' (" \o listName \o ")">>
       ELSE <<>>

createStatusMapping(lists, statusToList) ==
    LET mapped == {status \in StoryStatus :
                      Len(StatusMatches(lists, statusToList[status])) > 0}
        statusToListId ==
            [status \in mapped |-> StatusChosen(lists, statusToList[status])]
        \* listIdToStatus.set in the order open, in_progress, done: the last wins
        LastStatusOf(listId) ==
            IF "done" \in mapped /\ statusToListId["done"] = listId THEN "done"
            ELSE IF "in_progress" \in mapped /\ statusToListId["in_progress"] = listId
                 THEN "in_progress"
            ELSE "open"
    IN [ statusToListId |-> statusToListId,
         listIdToStatus |->
            [listId \in {statusToListId[status] : status \in mapped} |->
                LastStatusOf(listId)],
         issues |-> StatusIssuesOf(lists, "open", statusToList.open)
                    \o StatusIssuesOf(lists, "in_progress", statusToList.in_progress)
                    \o StatusIssuesOf(lists, "done", statusToList.done) ]

(***************************************************************************)
(* Dependency labels (sync-engine resolveLabelIds).                        *)
(***************************************************************************)
StartsWith(text, prefix) ==
    Len(text) >= Len(prefix) /\ SubSeq(text, 1, Len(prefix)) = prefix

LabelNameOf(dependency) == Mapping.dependsOnLabelPrefix \o dependency

\* card is Null when the story has no card
resolveLabelIds(story, labelNameToId, labelIdToName, card) ==
    LET deps == story.dependsOn
        present == SelectSeq(deps, LAMBDA d : Has(labelNameToId, LabelNameOf(d)))
        desiredLabelIds == [i \in DOMAIN present |-> labelNameToId[LabelNameOf(present[i])]]
        missing == {LabelNameOf(deps[i]) : i \in
                       {j \in DOMAIN deps : ~Has(labelNameToId, LabelNameOf(deps[j]))}}
        keepLabelIds ==
            IF card = Null THEN <<>>
            ELSE SelectSeq(card.labelIds,
                    LAMBDA labelId :
                        \/ ~Has(labelIdToName, labelId)
                        \/ ~StartsWith(labelIdToName[labelId], Mapping.dependsOnLabelPrefix))
    IN [ labelIds |-> sortStrings(keepLabelIds \o desiredLabelIds),
         missingLabels |-> SetToSeq(missing) ]

(***************************************************************************)
(* Checklists (sync-engine selectChecklist, buildChecklistInput).          *)
(***************************************************************************)
selectChecklist(checklists, name) ==
    LET matches == SelectSeq(checklists, LAMBDA checklist : checklist.name = name)
    IN IF Len(matches) > 1
       THEN [issue |-> "Multiple checklists named '" \o name \o "' found", found |-> FALSE,
             items |-> <<>>]
       ELSE [issue |-> "", found |-> Len(matches) = 1,
             items |-> IF Len(matches) = 1 THEN matches[1].items ELSE <<>>]

buildChecklistInput(story, checklistName) ==
    [ name |-> checklistName,
      items |-> [i \in DOMAIN story.acceptanceCriteria |->
                    [name |-> story.acceptanceCriteria[i],
                     checked |-> story.status = "done"]] ]

(***************************************************************************)
(* buildCardMapping (sync-engine): what the card of a story should be.     *)
(* card is Null for a story without a card; checklists is NotFetched when *)
(* the card's checklists were not fetched.                                 *)
(***************************************************************************)
\* the optional checklists argument of the two mapping functions
Fetched(checklists) == [fetched |-> TRUE, value |-> checklists]
NotFetched == [fetched |-> FALSE]

UpdateOf(fields, values) == [f \in fields |-> values[f]]

buildCardMapping(story, statusMapping, labelNameToId, labelIdToName, card, checklists) ==
    LET hasList == Has(statusMapping.statusToListId, story.status)
        listId == IF hasList THEN statusMapping.statusToListId[story.status] ELSE ""
        resolved == resolveLabelIds(story, labelNameToId, labelIdToName, card)
        formatted == formatCardTitle(story.id, story.title)
        cardInput == [ name |-> formatted.value, description |-> story.description,
                       listId |-> listId, labelIds |-> resolved.labelIds ]
        changed ==
            IF card = Null THEN {}
            ELSE {f \in {"name", "description", "listId", "labelIds"} :
                    \/ f = "name" /\ card.name # cardInput.name
                    \/ f = "description" /\ card.description # cardInput.description
                    \/ f = "listId" /\ hasList /\ listId # "" /\ card.listId # listId
                    \/ f = "labelIds" /\ ~areSetsEqual(card.labelIds, resolved.labelIds)}
        checklist == buildChecklistInput(story, Mapping.acceptanceCriteriaChecklistName)
        selection ==
            IF ~checklists.fetched THEN [issue |-> "", found |-> FALSE, items |-> <<>>]
            ELSE selectChecklist(checklists.value, Mapping.acceptanceCriteriaChecklistName)
        checklistNeedsUpdate ==
            IF checklists.fetched
            THEN IF selection.issue # "" THEN FALSE
                 ELSE IF Len(selection.items) = 0 /\ Len(checklist.items) = 0
                         /\ ~selection.found
                      THEN FALSE
                 ELSE ~areChecklistItemsEqual(selection.items, checklist.items)
            ELSE Len(checklist.items) > 0
    IN IF formatted.threw THEN [threw |-> TRUE]
       ELSE [ threw |-> FALSE,
              cardInput |-> cardInput,
              cardUpdate |-> UpdateOf(changed, cardInput),
              checklist |-> checklist,
              checklistNeedsUpdate |-> checklistNeedsUpdate,
              issues |-> (IF hasList /\ listId # "" THEN <<>>
                          ELSE <<"No Trello list mapped for status '" \o story.status \o "'">>)
                         \o (IF selection.issue # "" THEN <<selection.issue>> ELSE <<>>),
              missingLabels |-> resolved.missingLabels ]

(***************************************************************************)
(* buildStoryMapping (sync-engine): what the story of a card should be.    *)
(***************************************************************************)
\* DependsOnOfCard in the order of the card's labels, duplicates kept
DependsOnOfCardAsLabelled(card, labelIdToName) ==
    LET known == SelectSeq(card.labelIds, LAMBDA labelId : Has(labelIdToName, labelId))
        names == [i \in DOMAIN known |-> labelIdToName[known[i]]]
        prefixed == SelectSeq(names,
                       LAMBDA name : name # ""
                                     /\ StartsWith(name, Mapping.dependsOnLabelPrefix))
        sliced == [i \in DOMAIN prefixed |->
                     SubSeq(prefixed[i], Len(Mapping.dependsOnLabelPrefix) + 1,
                            Len(prefixed[i]))]
    IN SelectSeq(sliced, LAMBDA name : Trim(name) # "")

DependsOnOfCard(card, labelIdToName) ==
    LET known == SelectSeq(card.labelIds, LAMBDA labelId : Has(labelIdToName, labelId))
        names == [i \in DOMAIN known |-> labelIdToName[known[i]]]
        prefixed == SelectSeq(names,
                       LAMBDA name : name # ""
                                     /\ StartsWith(name, Mapping.dependsOnLabelPrefix))
        sliced == [i \in DOMAIN prefixed |->
                     SubSeq(prefixed[i], Len(Mapping.dependsOnLabelPrefix) + 1,
                            Len(prefixed[i]))]
        kept == SelectSeq(sliced, LAMBDA name : Trim(name) # "")
    IN sortStrings(Dedupe(kept))

buildStoryMapping(record, statusMapping, labelIdToName, checklists) ==
    LET hasStatus == Has(statusMapping.listIdToStatus, record.card.listId)
        selection ==
            IF ~checklists.fetched THEN [issue |-> "", found |-> FALSE, items |-> <<>>]
            ELSE selectChecklist(checklists.value, Mapping.acceptanceCriteriaChecklistName)
    IN [ story |->
           [ id |-> record.storyId,
             title |-> record.storyTitle,
             status |-> IF hasStatus THEN statusMapping.listIdToStatus[record.card.listId]
                        ELSE "open",
             dependsOn |-> DependsOnOfCard(record.card, labelIdToName),
             description |-> record.card.description,
             acceptanceCriteria |->
                 [i \in DOMAIN selection.items |-> selection.items[i].name] ],
         issues |-> (IF hasStatus THEN <<>>
                     ELSE <<"No PRD status mapped for Trello list '"
                            \o record.card.listId \o "'">>)
                    \o (IF selection.issue # "" THEN <<selection.issue>> ELSE <<>>) ]

hasUpdateFields(update) == DOMAIN update # {}

storiesEquivalent(left, right) ==
    /\ left.id = right.id
    /\ left.title = right.title
    /\ left.status = right.status
    /\ left.description = right.description
    /\ areSetsEqual(left.dependsOn, right.dependsOn)
    /\ areArraysEqual(left.acceptanceCriteria, right.acceptanceCriteria)

(***************************************************************************)
(* Fingerprint and persisted state (sync-state.ts).                        *)
(***************************************************************************)
hashText(value) == <<"sha256", value>>

\* createStoryFingerprint without the sort of dependsOn
createStoryFingerprintUnsorted(story) ==
    hashText([ id |-> story.id, title |-> story.title, status |-> story.status,
               description |-> story.description,
               dependsOn |-> story.dependsOn,
               acceptanceCriteria |-> story.acceptanceCriteria ])

createStoryFingerprint(story) ==
    hashText([ id |-> story.id, title |-> story.title, status |-> story.status,
               description |-> story.description,
               dependsOn |-> sortStrings(story.dependsOn),
               acceptanceCriteria |-> story.acceptanceCriteria ])

createMappingSignature(mapping) ==
    hashText([ storyPrefix |-> mapping.storyPrefix,
               idPattern |-> mapping.idPattern,
               cardTitleFormat |-> mapping.cardTitleFormat,
               dependsOnLabelPrefix |-> mapping.dependsOnLabelPrefix,
               statusToList |-> mapping.statusToList,
               acceptanceCriteriaChecklistName |-> mapping.acceptanceCriteriaChecklistName ])

(***************************************************************************)
(* The planner (sync-engine SyncEngine.buildPlan).                         *)
(*   options : [direction, prefer, createMissingLabels]                    *)
(*   prdResult : [stories, lastModifiedAt]   (formatAdapter.readStories)   *)
(*   lists, cards, labels : what the board adapter returns                 *)
(*   checklistsOf : card id -> the card's checklists (getCardChecklists)   *)
(*   incrementalState : Null, or the state loaded from the state file      *)
(* A plan entry carries keyed = FALSE when it has no id.                   *)
(***************************************************************************)
\* ids of the stories that occur more than once, in the order they are detected
RECURSIVE duplicateStoryIdsFrom(_, _, _)
duplicateStoryIdsFrom(stories, i, acc) ==
    IF i > Len(stories) THEN acc
    ELSE LET id == stories[i].id
             seen == \E j \in 1..(i - 1) : stories[j].id = id
         IN duplicateStoryIdsFrom(stories, i + 1,
                IF seen /\ id \notin Range(acc) THEN Append(acc, id) ELSE acc)

\* prdById: the first story of each id
FirstStory(stories, id) ==
    stories[CHOOSE i \in DOMAIN stories :
                stories[i].id = id /\ \A j \in 1..(i - 1) : stories[j].id # id]

\* storyFingerprints: Map.set for every story, the last story of an id wins
storyFingerprintOf(stories, id) ==
    createStoryFingerprint(stories[LastIndexWhere(stories, "id", id, Len(stories))])

cardRecordsOf(cards) ==
    LET parsed == [i \in DOMAIN cards |->
                      [card |-> cards[i], parsed |-> parseCardTitle(cards[i].name)]]
        ok == SelectSeq(parsed, LAMBDA entry : entry.parsed.status = "ok")
    IN [i \in DOMAIN ok |->
           [card |-> ok[i].card, storyId |-> ok[i].parsed.id,
            storyTitle |-> ok[i].parsed.title]]

\* titleConflictsOf reporting only the titles with several identifiers
titleConflictsOfAmbiguous(cards) ==
    LET parsed == [i \in DOMAIN cards |->
                      [card |-> cards[i], parsed |-> parseCardTitle(cards[i].name)]]
        bad == SelectSeq(parsed, LAMBDA entry : entry.parsed.status = "ambiguous")
    IN [i \in DOMAIN bad |->
           [keyed |-> FALSE, id |-> "", reason |-> bad[i].parsed.reason,
            cards |-> <<bad[i].card>>, story |-> Null]]

titleConflictsOf(cards) ==
    LET parsed == [i \in DOMAIN cards |->
                      [card |-> cards[i], parsed |-> parseCardTitle(cards[i].name)]]
        bad == SelectSeq(parsed, LAMBDA entry : entry.parsed.status # "ok")
    IN [i \in DOMAIN bad |->
           [keyed |-> FALSE, id |-> "", reason |-> bad[i].parsed.reason,
            cards |-> <<bad[i].card>>, story |-> Null]]

\* the keys of cardRecordsById in insertion order
cardRecordIds(cardRecords) == Dedupe([i \in DOMAIN cardRecords |-> cardRecords[i].storyId])

recordsOfId(cardRecords, id) == SelectSeq(cardRecords, LAMBDA record : record.storyId = id)

isStoryUnchanged(incrementalState, stories, story) ==
    IF incrementalState = Null THEN FALSE
    ELSE IF ~Has(incrementalState.storyIndex, story.id) THEN FALSE
    ELSE incrementalState.storyIndex[story.id].fingerprint
            = storyFingerprintOf(stories, story.id)

\* isCardUnchanged without the comparison of lastActivityAt
isCardUnchangedById(incrementalState, record) ==
    IF incrementalState = Null THEN FALSE
    ELSE IF ~Has(incrementalState.cardIndex, record.storyId) THEN FALSE
    ELSE incrementalState.cardIndex[record.storyId].cardId = record.card.id

isCardUnchanged(incrementalState, record) ==
    IF incrementalState = Null THEN FALSE
    ELSE IF ~Has(incrementalState.cardIndex, record.storyId) THEN FALSE
    ELSE /\ incrementalState.cardIndex[record.storyId].cardId = record.card.id
         /\ incrementalState.cardIndex[record.storyId].lastActivityAt
               = record.card.lastActivityAt

resolveListMove(record, cardUpdate) ==
    IF ~Has(cardUpdate, "listId") THEN Null
    ELSE [fromId |-> record.card.listId, toId |-> cardUpdate.listId]

ConflictEntry(id, reason, cards, story) ==
    [keyed |-> TRUE, id |-> id, reason |-> reason, cards |-> cards, story |-> story]

RECURSIVE JoinIssues(_)
JoinIssues(issues) ==
    IF Len(issues) = 0 THEN ""
    ELSE IF Len(issues) = 1 THEN issues[1]
    ELSE issues[1] \o "; " \o JoinIssues(Tail(issues))

RECURSIVE JoinNames(_)
JoinNames(names) ==
    IF Len(names) = 0 THEN ""
    ELSE IF Len(names) = 1 THEN names[1]
    ELSE names[1] \o ", " \o JoinNames(Tail(names))

\* applyMissingLabelIssues: the issues of a card mapping under the label policy
applyMissingLabelIssues(createMissingLabels, mappingResult) ==
    IF ~createMissingLabels /\ Len(mappingResult.missingLabels) > 0
    THEN Append(mappingResult.issues,
                "Missing Trello labels: " \o JoinNames(mappingResult.missingLabels))
    ELSE mappingResult.issues

Decision(bucket, entry) == [threw |-> FALSE, bucket |-> bucket, entry |-> entry]

NoopEntry(id, reason) == [id |-> id, reason |-> reason]

UpdateTrello(id, reason, story, record, cardMapping, cardUpdate) ==
    [ target |-> "trello", id |-> id, reason |-> reason, story |-> story,
      card |-> record.card, cardUpdate |-> cardUpdate,
      checklist |-> cardMapping.checklist,
      checklistNeedsUpdate |-> cardMapping.checklistNeedsUpdate,
      listMove |-> resolveListMove(record, cardUpdate) ]

UpdatePrd(id, reason, storyMapping, record) ==
    [ target |-> "prd", id |-> id, reason |-> reason, story |-> storyMapping.story,
      card |-> record.card ]

\* the checklists argument of the loop's mapping calls: checklistsByCardId.get
checklistsFor(ctx, record) ==
    IF record.card.id \in ctx.fetched
    THEN Fetched(ctx.checklistsOf[record.card.id]) ELSE NotFetched

\* storyOnlyDecision without the test of the mapping's issues
storyOnlyDecisionAlways(ctx, id, story, mappingResult) ==
    IF mappingResult.threw THEN [threw |-> TRUE]
    ELSE Decision("creates",
            [ target |-> "trello", id |-> id,
              reason |-> "PRD story missing in Trello", story |-> story,
              cardInput |-> mappingResult.cardInput,
              checklist |-> mappingResult.checklist ])

\* the body of the loop over sortedIds for a story without a card
storyOnlyDecision(ctx, id, story, mappingResult) ==
    IF mappingResult.threw THEN [threw |-> TRUE]
    ELSE IF Len(applyMissingLabelIssues(ctx.options.createMissingLabels, mappingResult)) > 0
    THEN Decision("conflicts",
            ConflictEntry(id,
                JoinIssues(applyMissingLabelIssues(ctx.options.createMissingLabels,
                                                   mappingResult)),
                <<>>, story))
    ELSE Decision("creates",
            [ target |-> "trello", id |-> id,
              reason |-> "PRD story missing in Trello", story |-> story,
              cardInput |-> mappingResult.cardInput,
              checklist |-> mappingResult.checklist ])

\* classifyStoryOnly without the test of the direction
classifyStoryOnlyAnyDirection(ctx, id, story) ==
    storyOnlyDecision(ctx, id, story,
        buildCardMapping(story, ctx.statusMapping, ctx.labelNameToId,
                         ctx.labelIdToName, Null, NotFetched))

classifyStoryOnly(ctx, id, story) ==
    IF ctx.options.direction = "trello-to-prd"
    THEN Decision("noop", NoopEntry(id, "PRD-only story ignored"))
    ELSE storyOnlyDecision(ctx, id, story,
            buildCardMapping(story, ctx.statusMapping, ctx.labelNameToId,
                             ctx.labelIdToName, Null, NotFetched))

\* the body of the loop for a card without a story
cardOnlyDecision(id, record, mappingResult) ==
    IF Len(mappingResult.issues) > 0
    THEN Decision("conflicts",
            ConflictEntry(id, JoinIssues(mappingResult.issues), <<record.card>>, Null))
    ELSE Decision("creates",
            [ target |-> "prd", id |-> id, reason |-> "Trello card missing in PRD",
              story |-> mappingResult.story, card |-> record.card ])

classifyCardOnly(ctx, id, record) ==
    IF ctx.options.direction = "prd-to-trello"
    THEN Decision("noop", NoopEntry(id, "Trello-only card ignored"))
    ELSE cardOnlyDecision(id, record,
            buildStoryMapping(record, ctx.statusMapping, ctx.labelIdToName,
                              checklistsFor(ctx, record)))

\* what the loop computes for a story with a card before it classifies the pair
pairNeeds(ctx, story, record, cardMapping, storyMapping) ==
    LET cardIssues == applyMissingLabelIssues(ctx.options.createMissingLabels, cardMapping)
        shouldCreateMissingLabels ==
            ctx.options.createMissingLabels /\ Len(cardMapping.missingLabels) > 0
        cardUpdate ==
            IF shouldCreateMissingLabels /\ ~Has(cardMapping.cardUpdate, "labelIds")
            THEN UpdateOf(DOMAIN cardMapping.cardUpdate \cup {"labelIds"},
                          cardMapping.cardInput)
            ELSE cardMapping.cardUpdate
        canUpdateCard == Len(cardIssues) = 0
        canUpdateStory == Len(storyMapping.issues) = 0
    IN IF cardMapping.threw THEN [threw |-> TRUE]
       ELSE [ threw |-> FALSE,
              cardMapping |-> cardMapping, cardIssues |-> cardIssues,
              storyMapping |-> storyMapping, cardUpdate |-> cardUpdate,
              canUpdateCard |-> canUpdateCard, canUpdateStory |-> canUpdateStory,
              needsCardUpdate |->
                  canUpdateCard /\ (\/ hasUpdateFields(cardUpdate)
                                    \/ cardMapping.checklistNeedsUpdate
                                    \/ shouldCreateMissingLabels),
              needsStoryUpdate |->
                  canUpdateStory /\ ~storiesEquivalent(story, storyMapping.story),
              timestampComparison |->
                  compareIsoTimestamps(ctx.prdResult.lastModifiedAt,
                                       record.card.lastActivityAt) ]

pairState(ctx, story, record) ==
    pairNeeds(ctx, story, record,
        buildCardMapping(story, ctx.statusMapping, ctx.labelNameToId, ctx.labelIdToName,
                         record.card, checklistsFor(ctx, record)),
        buildStoryMapping(record, ctx.statusMapping, ctx.labelIdToName,
                          checklistsFor(ctx, record)))

resolvedComparisonOf(ctx, pair) ==
    resolveTimestampComparison(pair.timestampComparison, ctx.options.prefer)

winnerReason(ctx, pair) ==
    IF pair.timestampComparison = 0
    THEN IF resolvedComparisonOf(ctx, pair) > 0
         THEN "PRD preferred over Trello (equal timestamps)"
         ELSE "Trello preferred over PRD (equal timestamps)"
    ELSE IF resolvedComparisonOf(ctx, pair) > 0 THEN "PRD newer than Trello"
    ELSE "Trello newer than PRD"

cardConflict(id, story, pair) == ConflictEntry(id, JoinIssues(pair.cardIssues), <<>>, story)

storyConflict(id, record, pair) ==
    ConflictEntry(id, JoinIssues(pair.storyMapping.issues), <<record.card>>, Null)

\* the loop body with the two one-sided branches of two-way left out
pairDecisionByTimestamp(ctx, id, story, record, pair) ==
    IF pair.threw THEN [threw |-> TRUE]
    ELSE IF ~pair.needsCardUpdate /\ ~pair.needsStoryUpdate
    THEN Decision("noop", NoopEntry(id, "Story and card in sync"))
    ELSE IF ctx.options.direction = "prd-to-trello"
    THEN IF ~pair.canUpdateCard THEN Decision("conflicts", cardConflict(id, story, pair))
         ELSE IF pair.needsCardUpdate
         THEN Decision("updates",
                 UpdateTrello(id, "PRD update required", story, record, pair.cardMapping,
                              pair.cardUpdate))
         ELSE Decision("noop", NoopEntry(id, "No PRD-to-Trello change needed"))
    ELSE IF ctx.options.direction = "trello-to-prd"
    THEN IF ~pair.canUpdateStory
         THEN Decision("conflicts", storyConflict(id, record, pair))
         ELSE IF pair.needsStoryUpdate
         THEN Decision("updates",
                 UpdatePrd(id, "Trello update required", pair.storyMapping, record))
         ELSE Decision("noop", NoopEntry(id, "No Trello-to-PRD change needed"))
    ELSE IF resolvedComparisonOf(ctx, pair) = 0
    THEN Decision("conflicts",
            ConflictEntry(id, "PRD and Trello updates conflict (equal timestamps)",
                          <<record.card>>, story))
    ELSE IF resolvedComparisonOf(ctx, pair) > 0
    THEN IF ~pair.canUpdateCard THEN Decision("conflicts", cardConflict(id, story, pair))
         ELSE Decision("updates",
                 UpdateTrello(id, winnerReason(ctx, pair), story, record,
                              pair.cardMapping, pair.cardUpdate))
    ELSE IF ~pair.canUpdateStory THEN Decision("conflicts", storyConflict(id, record, pair))
    ELSE Decision("updates",
            UpdatePrd(id, winnerReason(ctx, pair), pair.storyMapping, record))

\* the body of the loop for a story with a card that was not skipped as unchanged
pairDecision(ctx, id, story, record, pair) ==
    IF pair.threw THEN [threw |-> TRUE]
    ELSE IF ~pair.needsCardUpdate /\ ~pair.needsStoryUpdate
    THEN Decision("noop", NoopEntry(id, "Story and card in sync"))
    ELSE IF ctx.options.direction = "prd-to-trello"
    THEN IF ~pair.canUpdateCard THEN Decision("conflicts", cardConflict(id, story, pair))
         ELSE IF pair.needsCardUpdate
         THEN Decision("updates",
                 UpdateTrello(id, "PRD update required", story, record, pair.cardMapping,
                              pair.cardUpdate))
         ELSE Decision("noop", NoopEntry(id, "No PRD-to-Trello change needed"))
    ELSE IF ctx.options.direction = "trello-to-prd"
    THEN IF ~pair.canUpdateStory
         THEN Decision("conflicts", storyConflict(id, record, pair))
         ELSE IF pair.needsStoryUpdate
         THEN Decision("updates",
                 UpdatePrd(id, "Trello update required", pair.storyMapping, record))
         ELSE Decision("noop", NoopEntry(id, "No Trello-to-PRD change needed"))
    ELSE IF pair.needsCardUpdate /\ ~pair.needsStoryUpdate
    THEN Decision("updates",
            UpdateTrello(id, "PRD update required", story, record, pair.cardMapping,
                         pair.cardUpdate))
    ELSE IF pair.needsStoryUpdate /\ ~pair.needsCardUpdate
    THEN Decision("updates",
            UpdatePrd(id, "Trello update required", pair.storyMapping, record))
    ELSE IF resolvedComparisonOf(ctx, pair) = 0
    THEN Decision("conflicts",
            ConflictEntry(id, "PRD and Trello updates conflict (equal timestamps)",
                          <<record.card>>, story))
    ELSE IF resolvedComparisonOf(ctx, pair) > 0
    THEN IF ~pair.canUpdateCard THEN Decision("conflicts", cardConflict(id, story, pair))
         ELSE Decision("updates",
                 UpdateTrello(id, winnerReason(ctx, pair), story, record,
                              pair.cardMapping, pair.cardUpdate))
    ELSE IF ~pair.canUpdateStory THEN Decision("conflicts", storyConflict(id, record, pair))
    ELSE Decision("updates",
            UpdatePrd(id, winnerReason(ctx, pair), pair.storyMapping, record))

classifyPair(ctx, id, story, record) ==
    pairDecision(ctx, id, story, record, pairState(ctx, story, record))

\* whether the loop skips a story with a card as unchanged since the last sync
isPairUnchanged(ctx, story, record) ==
    /\ ctx.incrementalState # Null
    /\ isStoryUnchanged(ctx.incrementalState, ctx.prdResult.stories, story)
    /\ isCardUnchanged(ctx.incrementalState, record)

\* one iteration of the loop over sortedIds
classifyWith(ctx, id, hasStory, records) ==
    IF id \in ctx.conflictedIds THEN [threw |-> FALSE, bucket |-> "skip"]
    ELSE IF hasStory /\ Len(records) = 0
    THEN classifyStoryOnly(ctx, id, FirstStory(ctx.prdResult.stories, id))
    ELSE IF ~hasStory /\ Len(records) > 0 THEN classifyCardOnly(ctx, id, records[1])
    ELSE IF ~hasStory \/ Len(records) = 0 THEN [threw |-> FALSE, bucket |-> "skip"]
    ELSE IF isPairUnchanged(ctx, FirstStory(ctx.prdResult.stories, id), records[1])
    THEN Decision("noop", NoopEntry(id, "Unchanged since last sync"))
    ELSE classifyPair(ctx, id, FirstStory(ctx.prdResult.stories, id), records[1])

classify(ctx, id) ==
    classifyWith(ctx, id,
        \E i \in DOMAIN ctx.prdResult.stories : ctx.prdResult.stories[i].id = id,
        recordsOfId(ctx.uniqueCardRecords, id))

EntriesOf(decisions, bucket) ==
    LET chosen == SelectSeq(decisions, LAMBDA d : d.bucket = bucket)
    IN [i \in DOMAIN chosen |-> chosen[i].entry]

\* SortById in descending order
SortByIdDescending(entries) ==
    LET sorted == SortPairs([i \in DOMAIN entries |-> <<entries[i].id, entries[i]>>])
    IN [i \in DOMAIN sorted |-> sorted[Len(sorted) + 1 - i]]

SortById(entries) == SortPairs([i \in DOMAIN entries |-> <<entries[i].id, entries[i]>>])

\* plan.conflicts.sort by (id ?? reason)
SortConflicts(entries) ==
    SortPairs([i \in DOMAIN entries |->
                  <<IF entries[i].keyed THEN entries[i].id ELSE entries[i].reason,
                    entries[i]>>])

\* checklistTargets: the cards whose checklists buildPlan fetches
checklistTargets(options, incrementalState, stories, uniqueCardRecords) ==
    SelectSeq(uniqueCardRecords,
        LAMBDA record :
            IF ~\E i \in DOMAIN stories : stories[i].id = record.storyId
            THEN options.direction # "prd-to-trello"
            ELSE IF incrementalState = Null THEN TRUE
            ELSE ~(/\ isStoryUnchanged(incrementalState, stories,
                                       FirstStory(stories, record.storyId))
                   /\ isCardUnchanged(incrementalState, record)))

statusConflictsOf(statusMapping) ==
    [i \in DOMAIN statusMapping.issues |->
        [keyed |-> FALSE, id |-> "", reason |-> statusMapping.issues[i],
         cards |-> <<>>, story |-> Null]]

duplicateStoryConflictsOf(duplicateStoryIds) ==
    [i \in DOMAIN duplicateStoryIds |->
        ConflictEntry(duplicateStoryIds[i], "Duplicate story ID in PRD stories",
                      <<>>, Null)]

\* a duplicate check that only fires from the third card on
duplicateCardIdsOverTwo(cardRecords) ==
    SelectSeq(cardRecordIds(cardRecords),
              LAMBDA id : Len(recordsOfId(cardRecords, id)) > 2)

duplicateCardIdsOf(cardRecords) ==
    SelectSeq(cardRecordIds(cardRecords),
              LAMBDA id : Len(recordsOfId(cardRecords, id)) > 1)

cardsOfId(cardRecords, id) ==
    LET records == recordsOfId(cardRecords, id)
    IN [k \in DOMAIN records |-> records[k].card]

duplicateCardConflictsOf(cardRecords, duplicateCardIds) ==
    [i \in DOMAIN duplicateCardIds |->
        ConflictEntry(duplicateCardIds[i], "Duplicate story ID across Trello cards",
                      cardsOfId(cardRecords, duplicateCardIds[i]), Null)]

uniqueCardRecordsOf(cardRecords) ==
    LET uniqueIds == SelectSeq(cardRecordIds(cardRecords),
                               LAMBDA id : Len(recordsOfId(cardRecords, id)) = 1)
    IN [i \in DOMAIN uniqueIds |-> recordsOfId(cardRecords, uniqueIds[i])[1]]

\* a loop over the identifiers of the stories only
sortedIdsOfStories(stories, uniqueCardRecords) ==
    SetToSeq({stories[i].id : i \in DOMAIN stories})

sortedIdsOf(stories, uniqueCardRecords) ==
    SetToSeq({stories[i].id : i \in DOMAIN stories}
                \cup {uniqueCardRecords[i].storyId : i \in DOMAIN uniqueCardRecords})

fetchedOf(targets) == {targets[i].card.id : i \in DOMAIN targets}

\* everything buildPlan derives from what it read before its loop
planContextWith(options, prdResult, statusMapping, labels, checklistsOf, incrementalState, cardRecords, duplicateStoryIds, duplicateCardIds, uniqueCardRecords) ==
    [ options |-> options, prdResult |-> prdResult,
      statusMapping |-> statusMapping,
      labelNameToId |-> MapOf(labels, "name", "id"),
      labelIdToName |-> MapOf(labels, "id", "name"),
      checklistsOf |-> checklistsOf,
      fetched |-> fetchedOf(checklistTargets(options, incrementalState,
                                             prdResult.stories, uniqueCardRecords)),
      incrementalState |-> incrementalState,
      uniqueCardRecords |-> uniqueCardRecords,
      conflictedIds |-> Range(duplicateStoryIds) \cup Range(duplicateCardIds),
      stories |-> prdResult.stories,
      sortedIds |-> sortedIdsOf(prdResult.stories, uniqueCardRecords),
      statusConflicts |-> statusConflictsOf(statusMapping),
      duplicateStoryConflicts |-> duplicateStoryConflictsOf(duplicateStoryIds),
      duplicateCardConflicts |-> duplicateCardConflictsOf(cardRecords, duplicateCardIds) ]

planContextOf(options, prdResult, statusMapping, labels, checklistsOf, incrementalState, cardRecords) ==
    planContextWith(options, prdResult, statusMapping, labels, checklistsOf,
                    incrementalState, cardRecords,
                    duplicateStoryIdsFrom(prdResult.stories, 1, <<>>),
                    duplicateCardIdsOf(cardRecords), uniqueCardRecordsOf(cardRecords))

planContext(options, prdResult, lists, cards, labels, checklistsOf, incrementalState) ==
    planContextOf(options, prdResult, createStatusMapping(lists, Mapping.statusToList),
                  labels, checklistsOf,
                  incrementalState, cardRecordsOf(cards))

\* the plan after the loop: the four lists, sorted
assemblePlan(ctx, cards, decisions) ==
    IF \E i \in DOMAIN decisions : decisions[i].threw
    THEN [threw |-> TRUE, fetched |-> ctx.fetched]
    ELSE [ threw |-> FALSE,
           fetched |-> ctx.fetched,
           plan |->
             [ creates |-> SortById(EntriesOf(decisions, "creates")),
               updates |-> SortById(EntriesOf(decisions, "updates")),
               conflicts |-> SortConflicts(ctx.statusConflicts
                                           \o ctx.duplicateStoryConflicts
                                           \o titleConflictsOf(cards)
                                           \o ctx.duplicateCardConflicts
                                           \o EntriesOf(decisions, "conflicts")),
               noop |-> SortById(EntriesOf(decisions, "noop")) ],
           context |-> [prdStories |-> ctx.stories,
                        cardRecords |-> ctx.uniqueCardRecords] ]

planFrom(ctx, cards) ==
    assemblePlan(ctx, cards,
                 [i \in DOMAIN ctx.sortedIds |-> classify(ctx, ctx.sortedIds[i])])

buildPlan(options, prdResult, lists, cards, labels, checklistsOf, incrementalState) ==
    planFrom(planContext(options, prdResult, lists, cards, labels, checklistsOf,
                         incrementalState), cards)

(***************************************************************************)
(* createSyncState (sync-state.ts) and the state file                      *)
(* (sync-state-store.ts parseSyncState, validateSyncState, loadSyncState). *)
(* The file is [kind |-> "missing"], [kind |-> "unreadable"],              *)
(* [kind |-> "invalid_json"], [kind |-> "partial"] (a file being written)  *)
(* or [kind |-> "json", value |-> the parsed document]; malformed stands   *)
(* for a required field of the wrong JSON type.                            *)
(***************************************************************************)
resolveLastSeenActivity(cards, fallback) ==
    LET RECURSIVE Latest(_, _)
        Latest(i, latest) ==
            IF i > Len(cards) THEN latest
            ELSE Latest(i + 1,
                    IF compareIsoTimestamps(cards[i].card.lastActivityAt, latest) > 0
                    THEN cards[i].card.lastActivityAt ELSE latest)
    IN Latest(1, fallback)

createSyncState(boardId, prdPath, mapping, stories, cards, lastSeenTrelloActivity) ==
    [ version |-> 1,
      malformed |-> FALSE,
      boardId |-> boardId,
      prdPath |-> prdPath,
      mappingSignature |-> createMappingSignature(mapping),
      lastSeenTrelloActivity |-> resolveLastSeenActivity(cards, lastSeenTrelloActivity),
      storyIndex |->
          [id \in {stories[i].id : i \in DOMAIN stories} |->
              [fingerprint |->
                  createStoryFingerprint(stories[LastIndexWhere(stories, "id", id,
                                                                Len(stories))])]],
      cardIndex |->
          [id \in {cards[i].storyId : i \in DOMAIN cards} |->
              LET record == cards[LastIndexWhere(cards, "storyId", id, Len(cards))]
              IN [cardId |-> record.card.id,
                  lastActivityAt |-> record.card.lastActivityAt]] ]

\* parseSyncState without the checks of the fields' types
parseSyncStateErrorVersionOnly(value) ==
    IF value.version # 1 THEN "state.version must be 1" ELSE ""

\* parseSyncState: "" when the document parses, else the error message
parseSyncStateError(value) ==
    IF value.version # 1 THEN "state.version must be 1"
    ELSE IF value.malformed THEN "state field has the wrong type"
    ELSE ""

\* validateSyncState without the comparison of mappingSignature
validateSyncStateErrorNoSignature(state, options) ==
    IF options.boardId # "" /\ state.boardId # options.boardId
    THEN "state.boardId mismatch"
    ELSE IF options.prdPath # "" /\ state.prdPath # options.prdPath
    THEN "state.prdPath mismatch"
    ELSE ""

\* validateSyncState: "" when the state belongs to this run, else the error message
validateSyncStateError(state, options) ==
    IF options.boardId # "" /\ state.boardId # options.boardId
    THEN "state.boardId mismatch"
    ELSE IF options.prdPath # "" /\ state.prdPath # options.prdPath
    THEN "state.prdPath mismatch"
    ELSE IF state.mappingSignature # options.mappingSignature
    THEN "state.mappingSignature mismatch (mapping changed)"
    ELSE ""

\* loadSyncState: the state (or Null) and the warning it emitted ("" for none)
loadSyncState(file, options) ==
    IF file.kind = "missing" THEN [state |-> Null, warning |-> ""]
    ELSE IF file.kind = "unreadable"
    THEN [state |-> Null, warning |-> "failed to read"]
    ELSE IF file.kind # "json"
    THEN [state |-> Null, warning |-> "invalid JSON"]
    ELSE IF parseSyncStateError(file.value) # ""
    THEN [state |-> Null, warning |-> parseSyncStateError(file.value)]
    ELSE IF validateSyncStateError(file.value, options) # ""
    THEN [state |-> Null, warning |-> validateSyncStateError(file.value, options)]
    ELSE [state |-> file.value, warning |-> ""]

(***************************************************************************)
(* The board behind the adapter (trello-adapter.ts).  A board is           *)
(* [cards, labels, checklistsOf]; now is the time of the request.          *)
(***************************************************************************)
IndexOfCard(cards, cardId) == CHOOSE i \in DOMAIN cards : cards[i].id = cardId

\* createLabel: the board assigns the id
createLabel(board, name) ==
    [board EXCEPT !.labels = Append(@, [id |-> "new-" \o name, name |-> name])]

\* createCard: the board assigns the id and stamps the activity
NewCardId(board) == "card-" \o ToString(Len(board.cards) + 1)

createCard(board, input, now) ==
    LET card == [ id |-> NewCardId(board), name |-> input.name,
                  description |-> input.description, listId |-> input.listId,
                  labelIds |-> input.labelIds, closed |-> FALSE, lastActivityAt |-> now ]
    IN [board EXCEPT !.cards = Append(@, card),
                     !.checklistsOf = [id \in DOMAIN @ \cup {card.id} |->
                                          IF id \in DOMAIN @ THEN @[id] ELSE <<>>]]

updateCard(board, cardId, update, now) ==
    LET i == IndexOfCard(board.cards, cardId)
        old == board.cards[i]
        new == [f \in DOMAIN old |->
                   IF f \in DOMAIN update THEN update[f]
                   ELSE IF f = "lastActivityAt" THEN now
                   ELSE old[f]]
    IN [board EXCEPT !.cards[i] = new]

\* syncChecklistItems: existing items are matched to desired ones by name, first
\* unused first; matched items keep their place and take the desired state,
\* unmatched desired items are created (the board appends them), unmatched
\* existing items are deleted.
RECURSIVE MatchItems(_, _, _, _, _)
MatchItems(existing, desired, k, used, created) ==
    IF k > Len(desired) THEN [used |-> used, created |-> created]
    ELSE LET free == {i \in DOMAIN existing :
                         existing[i].name = desired[k].name /\ i \notin DOMAIN used}
         IN IF free = {}
            THEN MatchItems(existing, desired, k + 1, used, Append(created, desired[k]))
            ELSE LET i == CHOOSE j \in free : \A other \in free : j <= other
                 IN MatchItems(existing, desired, k + 1,
                        [j \in DOMAIN used \cup {i} |->
                            IF j = i THEN desired[k].checked ELSE used[j]],
                        created)

syncChecklistItems(existing, desired) ==
    LET matched == MatchItems(existing, desired, 1, <<>>, <<>>)
        keptIndexes == SelectSeq([i \in DOMAIN existing |-> i],
                                 LAMBDA i : i \in DOMAIN matched.used)
    IN [i \in DOMAIN keptIndexes |->
           [name |-> existing[keptIndexes[i]].name,
            checked |-> matched.used[keptIndexes[i]]]]
       \o matched.created

upsertChecklist(board, cardId, checklist, now) ==
    LET existingChecklists == board.checklistsOf[cardId]
        found == {i \in DOMAIN existingChecklists :
                     existingChecklists[i].name = checklist.name}
        target == IF found = {} THEN Len(existingChecklists) + 1
                  ELSE CHOOSE i \in found : \A other \in found : i <= other
        before == IF found = {} THEN <<>> ELSE existingChecklists[target].items
        after == syncChecklistItems(before, checklist.items)
        checklists ==
            IF found = {}
            THEN Append(existingChecklists, [name |-> checklist.name, items |-> after])
            ELSE [existingChecklists EXCEPT ![target].items = after]
        touched == found = {} \/ after # before
        i == IndexOfCard(board.cards, cardId)
    IN [board EXCEPT !.checklistsOf[cardId] = checklists,
                     !.cards[i].lastActivityAt = IF touched THEN now ELSE @]

(***************************************************************************)
(* The applier (sync-engine SyncEngine.applyPlan, applyPrdChanges,         *)
(* buildSnapshot).  The writes of a plan are computed as a sequence of     *)
(* steps; the first `count` of them are executed (a failing write ends the *)
(* run with the later ones not issued).                                    *)
(***************************************************************************)
RECURSIVE Flatten(_)
Flatten(seqs) == IF seqs = <<>> THEN <<>> ELSE Head(seqs) \o Flatten(Tail(seqs))

TargetEntries(entries, target) == SelectSeq(entries, LAMBDA entry : entry.target = target)

trelloEntriesOf(plan) ==
    TargetEntries(plan.creates, "trello") \o TargetEntries(plan.updates, "trello")

\* whether applyPlan runs its label block
createsLabels(plan, options) ==
    options.createMissingLabels /\ Len(trelloEntriesOf(plan)) > 0

desiredLabelNames(entries) ==
    UNION {{LabelNameOf(entries[i].story.dependsOn[k]) :
               k \in DOMAIN entries[i].story.dependsOn} : i \in DOMAIN entries}

\* missingLabelNames without the filter on the labels the board already has
missingLabelNamesUnfiltered(plan, options, labels) ==
    IF createsLabels(plan, options)
    THEN SetToSeq(desiredLabelNames(trelloEntriesOf(plan)))
    ELSE <<>>

\* missingLabelNames: the labels applyPlan creates, in order
missingLabelNames(plan, options, labels) ==
    IF createsLabels(plan, options)
    THEN SelectSeq(SetToSeq(desiredLabelNames(trelloEntriesOf(plan))),
                   LAMBDA name : \A i \in DOMAIN labels : labels[i].name # name)
    ELSE <<>>

\* the labels of the board once the missing ones are created
labelsAfter(labels, names) ==
    labels \o [i \in DOMAIN names |-> [id |-> "new-" \o names[i], name |-> names[i]]]

relabelCreate(entry, labelNameToId, labelIdToName) ==
    IF entry.target # "trello" THEN entry
    ELSE [entry EXCEPT !.cardInput.labelIds =
             resolveLabelIds(entry.story, labelNameToId, labelIdToName, Null).labelIds]

withLabelIds(entry, labelIds) ==
    IF areSetsEqual(entry.card.labelIds, labelIds) THEN entry
    ELSE [entry EXCEPT !.cardUpdate =
             [f \in DOMAIN @ \cup {"labelIds"} |->
                 IF f = "labelIds" THEN labelIds ELSE @[f]]]

relabelUpdate(entry, labelNameToId, labelIdToName) ==
    IF entry.target # "trello" THEN entry
    ELSE withLabelIds(entry,
             resolveLabelIds(entry.story, labelNameToId, labelIdToName,
                             entry.card).labelIds)

\* the label block rewrites the label ids held by the plan's board entries
relabelWith(plan, labelNameToId, labelIdToName) ==
    [plan EXCEPT
        !.creates = [i \in DOMAIN @ |-> relabelCreate(@[i], labelNameToId, labelIdToName)],
        !.updates = [i \in DOMAIN @ |-> relabelUpdate(@[i], labelNameToId, labelIdToName)]]

relabelPlan(plan, labels) ==
    relabelWith(plan, MapOf(labels, "name", "id"), MapOf(labels, "id", "name"))

createdStoriesOf(stories, changeStories) ==
    LET created == SetToSeq({changeStories[i].id : i \in DOMAIN changeStories}
                               \ {stories[i].id : i \in DOMAIN stories})
    IN [i \in DOMAIN created |->
           changeStories[LastIndexWhere(changeStories, "id", created[i],
                                        Len(changeStories))]]

applyChangeStories(stories, changeStories) ==
    [i \in DOMAIN stories |->
        IF \E k \in DOMAIN changeStories : changeStories[k].id = stories[i].id
        THEN changeStories[LastIndexWhere(changeStories, "id", stories[i].id,
                                          Len(changeStories))]
        ELSE stories[i]]
    \o createdStoriesOf(stories, changeStories)

\* applyPrdChanges with the whole document sorted by identifier
applyPrdChangesSorted(stories, changes) ==
    SortById(applyChangeStories(stories, [i \in DOMAIN changes |-> changes[i].story]))

applyPrdChanges(stories, changes) ==
    applyChangeStories(stories, [i \in DOMAIN changes |-> changes[i].story])

labelStepsOf(names) == [i \in DOMAIN names |-> [op |-> "createLabel", name |-> names[i]]]

createStepsOf(creates) ==
    Flatten([i \in DOMAIN creates |->
        <<[op |-> "createCard", id |-> creates[i].id, input |-> creates[i].cardInput]>>
        \o (IF Len(creates[i].checklist.items) > 0
            THEN <<[op |-> "upsertChecklist", id |-> creates[i].id, created |-> TRUE,
                    cardId |-> "", checklist |-> creates[i].checklist]>>
            ELSE <<>>)])

updateStepsOf(updates) ==
    Flatten([i \in DOMAIN updates |->
        (IF hasUpdateFields(updates[i].cardUpdate)
         THEN <<[op |-> "updateCard", id |-> updates[i].id,
                 cardId |-> updates[i].card.id, update |-> updates[i].cardUpdate]>>
         ELSE <<>>)
        \o (IF updates[i].checklistNeedsUpdate
            THEN <<[op |-> "upsertChecklist", id |-> updates[i].id, created |-> FALSE,
                    cardId |-> updates[i].card.id, checklist |-> updates[i].checklist]>>
            ELSE <<>>)])

prdStepsOf(context, prdChanges) ==
    IF Len(prdChanges) > 0
    THEN <<[op |-> "writeStories",
            stories |-> applyPrdChanges(context.prdStories, prdChanges)]>>
    ELSE <<>>

\* stepsOf with the document written before the board
stepsOfDocumentFirst(plan, context, names, relabelled) ==
    [ steps |-> prdStepsOf(context, TargetEntries(plan.creates, "prd")
                                    \o TargetEntries(plan.updates, "prd"))
                \o labelStepsOf(names)
                \o createStepsOf(TargetEntries(relabelled.creates, "trello"))
                \o updateStepsOf(TargetEntries(relabelled.updates, "trello")),
      labelCount |-> Len(names),
      relabelled |-> relabelled ]

\* the write requests applyPlan issues, in order
stepsOf(plan, context, names, relabelled) ==
    [ steps |-> labelStepsOf(names)
                \o createStepsOf(TargetEntries(relabelled.creates, "trello"))
                \o updateStepsOf(TargetEntries(relabelled.updates, "trello"))
                \o prdStepsOf(context, TargetEntries(plan.creates, "prd")
                                       \o TargetEntries(plan.updates, "prd")),
      labelCount |-> Len(names),
      relabelled |-> relabelled ]

applyStepsWith(plan, context, options, labels, names) ==
    stepsOf(plan, context, names,
            IF createsLabels(plan, options)
            THEN relabelPlan(plan, labelsAfter(labels, names)) ELSE plan)

applySteps(plan, context, options, labels) ==
    applyStepsWith(plan, context, options, labels,
                   missingLabelNames(plan, options, labels))

\* updatedCardsByStoryId.set(id, card) with the card the board returned
withCard(world, storyId, newBoard, cardIndex) ==
    [world EXCEPT !.board = newBoard,
                  !.updatedCardsByStoryId =
                      [id \in DOMAIN @ \cup {storyId} |->
                          IF id = storyId THEN newBoard.cards[cardIndex] ELSE @[id]]]

withChecklist(world, cardId, checklist, now) ==
    [world EXCEPT !.board = upsertChecklist(@, cardId, checklist, now),
                  !.touched = @ \cup {cardId}]

\* one write request against the board and the document
\* world: [board, stories, prdModifiedAt, updatedCardsByStoryId, touched]
execStep(world, step, now) ==
    IF step.op = "createLabel"
    THEN [world EXCEPT !.board = createLabel(@, step.name)]
    ELSE IF step.op = "createCard"
    THEN withCard(world, step.id, createCard(world.board, step.input, now),
                  Len(world.board.cards) + 1)
    ELSE IF step.op = "updateCard"
    THEN withCard(world, step.id, updateCard(world.board, step.cardId, step.update, now),
                  IndexOfCard(world.board.cards, step.cardId))
    ELSE IF step.op = "upsertChecklist"
    THEN withChecklist(world,
                       IF step.created THEN world.updatedCardsByStoryId[step.id].id
                       ELSE step.cardId,
                       step.checklist, now)
    ELSE [world EXCEPT !.stories = step.stories, !.prdModifiedAt = now]

RECURSIVE execSteps(_, _, _, _, _)
execSteps(world, steps, i, count, now) ==
    IF i > count THEN world
    ELSE execSteps(execStep(world, steps[i], now), steps, i + 1, count, now)

resolveLatestActivity(records, now) ==
    IF Len(records) = 0 THEN now
    ELSE resolveLastSeenActivity(Tail(records), records[1].card.lastActivityAt)

knownCards(context, updatedCardsByStoryId) ==
    [i \in DOMAIN context.cardRecords |->
        [storyId |-> context.cardRecords[i].storyId,
         card |-> IF Has(updatedCardsByStoryId, context.cardRecords[i].storyId)
                  THEN updatedCardsByStoryId[context.cardRecords[i].storyId]
                  ELSE context.cardRecords[i].card]]

newCards(known, updatedCardsByStoryId) ==
    LET newIds == SetToSeq(DOMAIN updatedCardsByStoryId
                              \ {known[i].storyId : i \in DOMAIN known})
    IN [i \in DOMAIN newIds |->
           [storyId |-> newIds[i], card |-> updatedCardsByStoryId[newIds[i]]]]

snapshotCards(known, updatedCardsByStoryId) ==
    known \o newCards(known, updatedCardsByStoryId)

refreshCards(cards, boardCards) ==
    [i \in DOMAIN cards |->
        [storyId |-> cards[i].storyId,
         card |-> IF \E k \in DOMAIN boardCards : boardCards[k].id = cards[i].card.id
                  THEN boardCards[LastIndexWhere(boardCards, "id", cards[i].card.id,
                                                 Len(boardCards))]
                  ELSE cards[i].card]]

snapshotOf(updatedStories, cards, now) ==
    [ stories |-> updatedStories, cards |-> cards,
      lastSeenTrelloActivity |-> resolveLatestActivity(cards, now) ]

\* buildSnapshot: the stories and cards the next state is built from
buildSnapshot(context, updatedStories, updatedCardsByStoryId, touched, boardCards, now) ==
    snapshotOf(updatedStories,
        IF touched # {}
        THEN refreshCards(snapshotCards(knownCards(context, updatedCardsByStoryId),
                                        updatedCardsByStoryId), boardCards)
        ELSE snapshotCards(knownCards(context, updatedCardsByStoryId),
                           updatedCardsByStoryId),
        now)

(***************************************************************************)
(* The system: a document of stories, a board, the state file, the options *)
(* of the invocation, and the people who edit the document and the board   *)
(* between runs.                                                           *)
(***************************************************************************)
\* call is the last call of a function of the codec or of an adapter that the
\* specifications of those functions make, with its arguments and its result
VARIABLES stories, prdModifiedAt, board, stateFile, options, now, edits, pc, pending, run,
          call

engineVars == <<stories, prdModifiedAt, board, stateFile, options, now, edits, pc, pending, run>>

vars == <<stories, prdModifiedAt, board, stateFile, options, now, edits, pc, pending, run,
          call>>

NoCall == [op |-> "none"]

BoardId == "board-1"
PrdPath == "prd.json"

File(kind, value) == [kind |-> kind, value |-> value]

Lists == << [id |-> "list-open", name |-> "To Do", closed |-> FALSE],
            [id |-> "list-progress", name |-> "In Progress", closed |-> FALSE],
            [id |-> "list-done", name |-> "Done", closed |-> FALSE],
            [id |-> "list-other", name |-> "Backlog", closed |-> FALSE] >>

\* DEFAULTS of the configuration
DefaultOptions ==
    [ direction |-> "two-way", prefer |-> "none", createMissingLabels |-> TRUE,
      dryRun |-> FALSE, blockWrites |-> FALSE, incremental |-> TRUE ]

OptionValues ==
    [ direction |-> {"two-way", "prd-to-trello", "trello-to-prd"},
      prefer |-> {"none", "prd", "trello"},
      createMissingLabels |-> BOOLEAN, dryRun |-> BOOLEAN,
      blockWrites |-> BOOLEAN, incremental |-> BOOLEAN ]

NoRun == [ran |-> FALSE]

Init ==
    /\ stories = << [ id |-> "US-001", title |-> "First", status |-> "open",
                      description |-> "", dependsOn |-> <<>>,
                      acceptanceCriteria |-> <<"a">> ] >>
    /\ prdModifiedAt = 0
    /\ board = [ lists |-> Lists,
                 cards |-> << [ id |-> "card-1", name |-> "[US-001] First",
                                description |-> "", listId |-> "list-open",
                                labelIds |-> <<>>, closed |-> FALSE,
                                lastActivityAt |-> 0 ] >>,
                 labels |-> << [id |-> "label-002", name |-> "s:US-002"],
                             [id |-> "label-keep", name |-> "priority"] >>,
                 checklistsOf |->
                     [c \in {"card-1"} |->
                         << [ name |-> "Acceptance Criteria",
                              items |-> <<[name |-> "a", checked |-> FALSE]>> ] >>] ]
    /\ stateFile = File("missing", Null)
    /\ options = DefaultOptions
    /\ now = 0
    /\ edits = 0
    /\ pc = "idle"
    /\ pending = Null
    /\ run = NoRun
    /\ call = NoCall

(***************************************************************************)
(* syncWithStateFile (sync-with-state.ts) with SyncEngine.syncWithState:   *)
(* load the state, plan, apply, build the next state and start saving it.  *)
(* done is the number of write requests that succeed; the apply fails at   *)
(* the next one when there is one.                                         *)
(***************************************************************************)
loadOptions ==
    [boardId |-> BoardId, prdPath |-> PrdPath,
     mappingSignature |-> createMappingSignature(Mapping)]

priorStateOf(file, opts) ==
    IF opts.incremental THEN loadSyncState(file, loadOptions)
    ELSE [state |-> Null, warning |-> ""]

planOf(opts, docStories, docModifiedAt, theBoard, state) ==
    buildPlan(opts, [stories |-> docStories, lastModifiedAt |-> docModifiedAt],
              theBoard.lists, theBoard.cards, theBoard.labels, theBoard.checklistsOf,
              state)

\* shouldSkipApply without the test of dryRun
shouldSkipApplyBlockOnly(opts, plan) ==
    opts.blockWrites /\ Len(plan.conflicts) > 0

\* shouldSkipApply without the test of blockWrites
shouldSkipApplyDryOnly(opts, plan) == opts.dryRun

shouldSkipApply(opts, plan) ==
    opts.dryRun \/ (opts.blockWrites /\ Len(plan.conflicts) > 0)

emptyWorld ==
    [ board |-> board, stories |-> stories, prdModifiedAt |-> prdModifiedAt,
      updatedCardsByStoryId |-> <<>>, touched |-> {} ]

runInput ==
    [stories |-> stories, prdModifiedAt |-> prdModifiedAt, board |-> board,
     stateFile |-> stateFile]

nextStateOf(snapshot) ==
    createSyncState(BoardId, PrdPath, Mapping, snapshot.stories, snapshot.cards,
                    snapshot.lastSeenTrelloActivity)

\* buildPlan threw: the run ends without a write and without a state
RunThrew(loaded, built) ==
    /\ run' = [ ran |-> TRUE, threw |-> TRUE, options |-> options, input |-> runInput,
                loaded |-> loaded, fetched |-> built.fetched, saveCalled |-> FALSE ]
    /\ UNCHANGED <<stories, prdModifiedAt, board, stateFile, pc, pending>>

\* the run after its writes: the snapshot, the next state and the start of the save
RunFinished(loaded, built, skipped, apply, done, world, nextState) ==
    /\ stories' = world.stories
    /\ prdModifiedAt' = world.prdModifiedAt
    /\ board' = world.board
    /\ run' = [ ran |-> TRUE, threw |-> FALSE, options |-> options, input |-> runInput,
                loaded |-> loaded, fetched |-> built.fetched, planned |-> built.plan,
                plan |-> IF ~skipped /\ done >= apply.labelCount
                         THEN apply.relabelled ELSE built.plan,
                skipped |-> skipped, steps |-> apply.steps, done |-> done,
                failed |-> done < Len(apply.steps),
                saveCalled |-> done = Len(apply.steps) /\ ~options.dryRun,
                nextState |-> nextState ]
    /\ IF done = Len(apply.steps) /\ ~options.dryRun
       THEN /\ pc' = "saving"
            /\ pending' = nextState
            /\ stateFile' = File("partial", Null)
       ELSE UNCHANGED <<pc, pending, stateFile>>

RunApplied(loaded, built, skipped, apply, done, world) ==
    \E nextState \in
         {IF done < Len(apply.steps) THEN Null
          ELSE nextStateOf(buildSnapshot(built.context, world.stories,
                                         world.updatedCardsByStoryId, world.touched,
                                         world.board.cards, now))} :
       RunFinished(loaded, built, skipped, apply, done, world, nextState)

RunPlanned(loaded, built, skipped) ==
    \E apply \in {IF skipped
                  THEN [steps |-> <<>>, labelCount |-> 0, relabelled |-> built.plan]
                  ELSE applySteps(built.plan, built.context, options, board.labels)} :
       \E done \in 0..Len(apply.steps) :
          \E world \in {execSteps(emptyWorld, apply.steps, 1, done, now)} :
             RunApplied(loaded, built, skipped, apply, done, world)

SyncWithStateFile ==
    /\ pc = "idle"
    /\ \E loaded \in {priorStateOf(stateFile, options)} :
         \E built \in {planOf(options, stories, prdModifiedAt, board, loaded.state)} :
            IF built.threw THEN RunThrew(loaded, built)
            ELSE RunPlanned(loaded, built, shouldSkipApply(options, built.plan))
    /\ UNCHANGED <<options, now, edits, call>>

\* saveSyncState: writeFile has opened (truncated) the file; the content lands
SaveWritten ==
    /\ pc = "saving"
    /\ stateFile' = File("json", pending)
    /\ pc' = "idle"
    /\ pending' = Null
    /\ UNCHANGED <<stories, prdModifiedAt, board, options, now, edits, run, call>>

\* the process is killed while writeFile is in progress
SaveInterrupted ==
    /\ pc = "saving"
    /\ pc' = "idle"
    /\ pending' = Null
    /\ UNCHANGED <<stories, prdModifiedAt, board, stateFile, options, now, edits, run, call>>

(***************************************************************************)
(* The environment: people edit the document (ralph-prd-adapter stamps the *)
(* file's mtime as lastModifiedAt), edit the board (the board stamps the   *)
(* card's lastActivityAt), change the options, and touch the state file.   *)
(* Every such step ends what is known about the last run.                  *)
(***************************************************************************)
StoryPatches ==
    [ title |-> {"First", "Second"},
      status |-> StoryStatus,
      description |-> {"", "d"},
      dependsOn |-> {<<>>, <<"US-002">>, <<"US-003">>, <<"US-002", "US-002">>},
      acceptanceCriteria |-> {<<>>, <<"a">>, <<"a", "b">>} ]

CardPatches ==
    [ name |-> {"[US-001] First", "[US-001] Second", "[US-002] First", "No id",
                "[US-001] see US-002"},
      description |-> {"", "d"},
      listId |-> {"list-open", "list-progress", "list-done", "list-other"},
      labelIds |-> {<<>>, <<"label-002">>, <<"label-keep", "label-002">>} ]

NewStoryIds == {"US-000", "US-001", "US-002", "BAD"}
NewCardNames == {"[US-001] First", "[US-002] Other"}
ChecklistEdits == {"toggle", "add", "delete", "duplicate"}
StateFileEdits == {"missing", "unreadable", "invalid_json", "version", "malformed",
                   "boardId", "prdPath", "mappingSignature"}

CanEdit == pc = "idle" /\ edits < MaxEdits

Edited == /\ edits' = edits + 1
          /\ run' = NoRun
          /\ UNCHANGED <<pc, pending, now, call>>

EditStory ==
    /\ CanEdit
    /\ \E i \in DOMAIN stories, field \in DOMAIN StoryPatches :
         \E value \in StoryPatches[field] :
            /\ stories[i][field] # value
            /\ stories' = [stories EXCEPT ![i][field] = value]
    /\ prdModifiedAt' = now
    /\ Edited
    /\ UNCHANGED <<board, stateFile, options>>

AddStory ==
    /\ CanEdit
    /\ \E id \in NewStoryIds :
         stories' = Append(stories,
                        [ id |-> id, title |-> "New", status |-> "open",
                          description |-> "", dependsOn |-> <<>>,
                          acceptanceCriteria |-> <<>> ])
    /\ prdModifiedAt' = now
    /\ Edited
    /\ UNCHANGED <<board, stateFile, options>>

EditCard ==
    /\ CanEdit
    /\ \E i \in DOMAIN board.cards, field \in DOMAIN CardPatches :
         \E value \in CardPatches[field] :
            /\ board.cards[i][field] # value
            /\ board' = [board EXCEPT !.cards[i][field] = value,
                                      !.cards[i].lastActivityAt = now]
    /\ Edited
    /\ UNCHANGED <<stories, prdModifiedAt, stateFile, options>>

AddCard ==
    /\ CanEdit
    /\ \E name \in NewCardNames :
         board' = createCard(board,
                      [ name |-> name, description |-> "", listId |-> "list-open",
                        labelIds |-> <<>> ], now)
    /\ Edited
    /\ UNCHANGED <<stories, prdModifiedAt, stateFile, options>>

editChecklists(checklists, edit) ==
    IF edit = "toggle"
    THEN [checklists EXCEPT ![1].items[1].checked = ~@]
    ELSE IF edit = "add"
    THEN [checklists EXCEPT ![1].items = Append(@, [name |-> "b", checked |-> FALSE])]
    ELSE IF edit = "delete"
    THEN Tail(checklists)
    ELSE Append(checklists, [name |-> checklists[1].name, items |-> <<>>])

EditChecklist ==
    /\ CanEdit
    /\ \E i \in DOMAIN board.cards, edit \in ChecklistEdits :
         LET cardId == board.cards[i].id
             checklists == board.checklistsOf[cardId]
         IN /\ Len(checklists) > 0
            /\ edit = "toggle" => Len(checklists[1].items) > 0
            /\ board' = [board EXCEPT !.checklistsOf[cardId] = editChecklists(@, edit),
                                      !.cards[i].lastActivityAt = now]
    /\ Edited
    /\ UNCHANGED <<stories, prdModifiedAt, stateFile, options>>

EditOptions ==
    /\ CanEdit
    /\ \E field \in DOMAIN OptionValues :
         \E value \in OptionValues[field] :
            /\ options[field] # value
            /\ options' = [options EXCEPT ![field] = value]
    /\ Edited
    /\ UNCHANGED <<stories, prdModifiedAt, board, stateFile>>

editStateFile(file, edit) ==
    IF edit \in {"missing", "unreadable", "invalid_json"} THEN File(edit, Null)
    ELSE IF edit = "version" THEN [file EXCEPT !.value.version = 2]
    ELSE IF edit = "malformed" THEN [file EXCEPT !.value.malformed = TRUE]
    ELSE IF edit = "boardId" THEN [file EXCEPT !.value.boardId = "board-2"]
    ELSE IF edit = "prdPath" THEN [file EXCEPT !.value.prdPath = "other.json"]
    ELSE [file EXCEPT !.value.mappingSignature = createMappingSignature(OtherMapping)]

EditStateFile ==
    /\ CanEdit
    /\ stateFile.kind = "json"
    /\ \E edit \in StateFileEdits :
         /\ stateFile' = editStateFile(stateFile, edit)
         /\ stateFile' # stateFile
    /\ Edited
    /\ UNCHANGED <<stories, prdModifiedAt, board, options>>

Tick ==
    /\ pc = "idle"
    /\ now < MaxTime
    /\ now' = now + 1
    /\ UNCHANGED <<stories, prdModifiedAt, board, stateFile, options, edits, pc, pending,
                   run, call>>

Next ==
    \/ SyncWithStateFile
    \/ SaveWritten
    \/ SaveInterrupted
    \/ EditStory
    \/ AddStory
    \/ EditCard
    \/ AddCard
    \/ EditChecklist
    \/ EditOptions
    \/ EditStateFile
    \/ Tick

Spec == Init /\ [][Next]_vars

(***************************************************************************)
(* Properties of the plan of the last run.  run.input is what the run      *)
(* read, run.planned the plan buildPlan returned.                          *)
(***************************************************************************)
Planned == run.ran /\ ~run.threw

\* the context buildPlan derived in the last run
lastContext ==
    planContext(run.options,
                [stories |-> run.input.stories, lastModifiedAt |-> run.input.prdModifiedAt],
                run.input.board.lists, run.input.board.cards, run.input.board.labels,
                run.input.board.checklistsOf, run.loaded.state)

storyIdsOf(ctx) == {ctx.stories[i].id : i \in DOMAIN ctx.stories}

uniqueCardIdsOf(ctx) ==
    {ctx.uniqueCardRecords[i].storyId : i \in DOMAIN ctx.uniqueCardRecords}

\* matched pairs: identifiers with a story and exactly one card, not duplicated
matchedIds(ctx) == (storyIdsOf(ctx) \cap uniqueCardIdsOf(ctx)) \ ctx.conflictedIds

storyAt(ctx, id) == FirstStory(ctx.stories, id)
recordAt(ctx, id) == recordsOfId(ctx.uniqueCardRecords, id)[1]

\* matched pairs the loop diffs (not skipped as unchanged since the last sync)
diffedIds(ctx) ==
    {id \in matchedIds(ctx) : ~isPairUnchanged(ctx, storyAt(ctx, id), recordAt(ctx, id))}

pairAt(ctx, id) == pairState(ctx, storyAt(ctx, id), recordAt(ctx, id))

EntriesFor(entries, id) == SelectSeq(entries, LAMBDA entry : entry.id = id)

ConflictsFor(plan, id) ==
    SelectSeq(plan.conflicts, LAMBDA entry : entry.keyed /\ entry.id = id)

OneUpdateTo(plan, id, target) ==
    /\ Len(EntriesFor(plan.updates, id)) = 1
    /\ EntriesFor(plan.updates, id)[1].target = target

bothDeltas(pair) == pair.needsCardUpdate /\ pair.needsStoryUpdate

tieOutcome(plan, id, prefer) ==
    IF prefer = "prd"
    THEN OneUpdateTo(plan, id, "trello") /\ Len(ConflictsFor(plan, id)) = 0
    ELSE IF prefer = "trello"
    THEN OneUpdateTo(plan, id, "prd")
    ELSE Len(ConflictsFor(plan, id)) > 0 /\ Len(EntriesFor(plan.updates, id)) = 0

\* C1: in a two-way run, a matched pair that the planner diffs, whose card-side
\* and story-side deltas are both non-empty and whose card's lastActivityAt
\* equals the document's lastModifiedAt, gives exactly one update to the board
\* and no conflict under prefer "prd", exactly one update to the document under
\* prefer "trello", and a conflict keyed by the identifier with no update under
\* prefer "none".
C1_TieBreak ==
    (Planned /\ run.options.direction = "two-way") =>
        \A ctx \in {lastContext} : \A id \in diffedIds(ctx) :
            \A pair \in {pairAt(ctx, id)} :
                (/\ bothDeltas(pair)
                 /\ recordAt(ctx, id).card.lastActivityAt = run.input.prdModifiedAt)
                    => tieOutcome(run.planned, id, run.options.prefer)

C1_Witness ==
    /\ Planned /\ run.options.direction = "two-way" /\ run.options.prefer = "prd"
    /\ \E ctx \in {lastContext} : \E id \in diffedIds(ctx) :
          /\ bothDeltas(pairAt(ctx, id))
          /\ recordAt(ctx, id).card.lastActivityAt = run.input.prdModifiedAt
          /\ OneUpdateTo(run.planned, id, "trello")

laterOutcome(plan, id, documentLater) ==
    /\ OneUpdateTo(plan, id, IF documentLater THEN "trello" ELSE "prd")
    /\ Len(ConflictsFor(plan, id)) = 0

\* C2: in a two-way run, a matched pair that the planner diffs, whose deltas
\* are both non-empty and whose two timestamps are valid and different, gives
\* exactly one update to the side with the earlier timestamp and no conflict,
\* whatever the prefer setting.
C2_LaterWins ==
    (Planned /\ run.options.direction = "two-way") =>
        \A ctx \in {lastContext} : \A id \in diffedIds(ctx) :
            \A pair \in {pairAt(ctx, id)} :
                (/\ bothDeltas(pair)
                 /\ ~IsNaN(run.input.prdModifiedAt)
                 /\ ~IsNaN(recordAt(ctx, id).card.lastActivityAt)
                 /\ recordAt(ctx, id).card.lastActivityAt # run.input.prdModifiedAt)
                    => laterOutcome(run.planned, id,
                          run.input.prdModifiedAt > recordAt(ctx, id).card.lastActivityAt)

C2_Witness ==
    /\ Planned /\ run.options.direction = "two-way" /\ run.options.prefer = "trello"
    /\ \E ctx \in {lastContext} : \E id \in diffedIds(ctx) :
          /\ bothDeltas(pairAt(ctx, id))
          /\ run.input.prdModifiedAt > recordAt(ctx, id).card.lastActivityAt
          /\ OneUpdateTo(run.planned, id, "trello")

\* identifiers carried by two or more stories / parsed from two or more cards
duplicatedStoryIds(docStories) ==
    {docStories[i].id : i \in {k \in DOMAIN docStories :
        \E j \in DOMAIN docStories : j # k /\ docStories[j].id = docStories[k].id}}

duplicatedCardIds(cardRecords) ==
    {cardRecords[i].storyId : i \in {k \in DOMAIN cardRecords :
        \E j \in DOMAIN cardRecords :
            j # k /\ cardRecords[j].storyId = cardRecords[k].storyId}}

inNoOtherList(plan, id) ==
    /\ Len(EntriesFor(plan.creates, id)) = 0
    /\ Len(EntriesFor(plan.updates, id)) = 0
    /\ Len(EntriesFor(plan.noop, id)) = 0

\* C3: under every direction, an identifier carried by two or more stories or
\* parsed from two or more cards has a conflict keyed by it (exactly one when
\* only the cards are duplicated) and no create, update or no-op.
C3_Duplicates ==
    Planned =>
        \A dupStories \in {duplicatedStoryIds(run.input.stories)} :
            \A dupCards \in {duplicatedCardIds(cardRecordsOf(run.input.board.cards))} :
                \A id \in dupStories \cup dupCards :
                    /\ Len(ConflictsFor(run.planned, id)) > 0
                    /\ id \notin dupStories => Len(ConflictsFor(run.planned, id)) = 1
                    /\ inNoOtherList(run.planned, id)

C3_Witness ==
    /\ Planned /\ run.options.direction = "trello-to-prd"
    /\ \E id \in duplicatedCardIds(cardRecordsOf(run.input.board.cards)) :
          /\ id \notin duplicatedStoryIds(run.input.stories)
          /\ Len(ConflictsFor(run.planned, id)) = 1

\* the lists of the plan that hold an entry keyed by id
listsHolding(plan, id) ==
    {name \in {"creates", "updates", "conflicts", "noop"} :
        IF name = "conflicts" THEN Len(ConflictsFor(plan, id)) > 0
        ELSE Len(EntriesFor(plan[name], id)) > 0}

keyedIds(plan) ==
    {plan.creates[i].id : i \in DOMAIN plan.creates}
        \cup {plan.updates[i].id : i \in DOMAIN plan.updates}
        \cup {plan.noop[i].id : i \in DOMAIN plan.noop}
        \cup {plan.conflicts[i].id : i \in {k \in DOMAIN plan.conflicts :
                                              plan.conflicts[k].keyed}}

inputIds(docStories, cardRecords) ==
    {docStories[i].id : i \in DOMAIN docStories}
        \cup {cardRecords[i].storyId : i \in DOMAIN cardRecords}

\* C4: in every plan buildPlan produces, every identifier of a story or of a
\* parsable card title is held by exactly one of creates, updates, conflicts
\* and noop, and no identifier is held by two of them.
C4_Partition ==
    Planned =>
        \A id \in inputIds(run.input.stories, cardRecordsOf(run.input.board.cards))
                     \cup keyedIds(run.planned) :
            Cardinality(listsHolding(run.planned, id)) = 1

C4_Witness ==
    /\ Planned
    /\ Len(run.planned.creates) > 0 /\ Len(run.planned.conflicts) > 0
    /\ Len(run.planned.noop) > 0
    /\ \A id \in inputIds(run.input.stories, cardRecordsOf(run.input.board.cards)) :
          Cardinality(listsHolding(run.planned, id)) = 1

(***************************************************************************)
(* Properties of two runs in a row.  A step is a run exactly when it       *)
(* starts idle, neither the clock nor the edit count moves, and run' holds *)
(* a run; run then still holds the run before it when no edit came between.*)
(***************************************************************************)
IsSync == pc = "idle" /\ now' = now /\ edits' = edits /\ run'.ran

\* the last run wrote everything its plan asked for
AppliedToCompletion ==
    /\ run.ran /\ ~run.threw
    /\ ~run.options.dryRun /\ ~run.skipped /\ ~run.failed

planIsQuiet(plan, ids) ==
    /\ Len(plan.creates) = 0
    /\ Len(plan.updates) = 0
    /\ \A id \in ids : Len(EntriesFor(plan.noop, id)) > 0

\* the last run diffed every matched pair: it had no incremental state
FullyDiffed == run.loaded.state = Null

\* C5: after a run that diffed every pair and applied a plan without conflicts
\* to completion, the next run, with no edit in between, plans zero creates,
\* zero updates and a no-op for every identifier of a story or of a parsable
\* card title.
C5_Idempotent ==
    [][(/\ IsSync /\ AppliedToCompletion /\ FullyDiffed
        /\ Len(run.planned.conflicts) = 0) =>
          /\ ~run'.threw
          /\ planIsQuiet(run'.planned,
                         inputIds(stories, cardRecordsOf(board.cards)))]_vars

(***************************************************************************)
(* Properties of the incremental state of the last run.                    *)
(***************************************************************************)
UnchangedReason == "Unchanged since last sync"

isUnchangedNoop(plan, id) ==
    \E i \in DOMAIN plan.noop :
        plan.noop[i].id = id /\ plan.noop[i].reason = UnchangedReason

noUnchangedNoop(plan) ==
    \A i \in DOMAIN plan.noop : plan.noop[i].reason # UnchangedReason

\* the state records this story's fingerprint and this card's (id, lastActivityAt)
recordedAs(state, story, record) ==
    /\ Has(state.storyIndex, story.id)
    /\ state.storyIndex[story.id].fingerprint = createStoryFingerprint(story)
    /\ Has(state.cardIndex, story.id)
    /\ state.cardIndex[story.id].cardId = record.card.id
    /\ state.cardIndex[story.id].lastActivityAt = record.card.lastActivityAt

skippedPair(id, record) ==
    isUnchangedNoop(run.planned, id) /\ record.card.id \notin run.fetched

\* what buildPlan returns for the input of the last run without a state
statelessBuilt ==
    planOf(run.options, run.input.stories, run.input.prdModifiedAt, run.input.board,
           Null)

entriesOfId(plan, id) ==
    [ creates |-> EntriesFor(plan.creates, id), updates |-> EntriesFor(plan.updates, id),
      conflicts |-> ConflictsFor(plan, id), noop |-> EntriesFor(plan.noop, id) ]

\* the pair is classified as the planner classifies it without a state
diffedPair(id, record, stateless) ==
    /\ record.card.id \in run.fetched
    /\ ~isUnchangedNoop(run.planned, id)
    /\ ~stateless.threw
          => entriesOfId(run.planned, id) = entriesOfId(stateless.plan, id)

\* C6: in a run with a valid prior state, a matched pair is a no-op "Unchanged
\* since last sync" whose card's checklists are not fetched exactly when the
\* state records the story's current fingerprint and the card's current
\* (id, lastActivityAt); every other matched pair has its card's checklists
\* fetched and is classified as it is without a state.
C6_IncrementalSkip ==
    (Planned /\ run.loaded.state # Null) =>
        \A ctx \in {lastContext} : \A stateless \in {statelessBuilt} :
            \A id \in matchedIds(ctx) :
                \A record \in {recordAt(ctx, id)} :
                    IF recordedAs(run.loaded.state, storyAt(ctx, id), record)
                    THEN skippedPair(id, record)
                    ELSE diffedPair(id, record, stateless)

C6_Witness ==
    /\ Planned /\ run.loaded.state # Null
    /\ \E ctx \in {lastContext} :
          /\ \E id \in matchedIds(ctx) :
                /\ recordedAs(run.loaded.state, storyAt(ctx, id), recordAt(ctx, id))
                /\ skippedPair(id, recordAt(ctx, id))
          /\ \E id \in matchedIds(ctx) :
                /\ ~recordedAs(run.loaded.state, storyAt(ctx, id), recordAt(ctx, id))
                /\ recordAt(ctx, id).card.id \in run.fetched

\* every matched card's checklists are fetched and no pair is skipped as unchanged
fullReconciliation ==
    \/ run.threw
    \/ /\ noUnchangedNoop(run.planned)
       /\ \A ctx \in {lastContext} :
             \A id \in matchedIds(ctx) : recordAt(ctx, id).card.id \in run.fetched

\* the run ends as the run without a state ends: same failure or same plan
sameAsStateless ==
    \A stateless \in {statelessBuilt} :
        /\ run.threw = stateless.threw
        /\ ~run.threw => run.planned = stateless.plan

corruptFile(file) ==
    \/ file.kind \in {"unreadable", "invalid_json", "partial"}
    \/ file.kind = "json" /\ (file.value.version # 1 \/ file.value.malformed)

\* C7: in an incremental run over a state file that is unreadable, is not
\* JSON, has a version other than 1 or a malformed field, loadSyncState
\* returns null with a warning and the run is a full reconciliation: it fails
\* only where the run without a state fails, fetches every matched card's
\* checklists and skips no pair as unchanged.
C7_CorruptStateIgnored ==
    (run.ran /\ run.options.incremental /\ corruptFile(run.input.stateFile)) =>
        /\ run.loaded.state = Null
        /\ run.loaded.warning # ""
        /\ fullReconciliation
        /\ sameAsStateless

C7_Witness ==
    /\ Planned /\ run.options.incremental
    /\ run.input.stateFile.kind = "json" /\ run.input.stateFile.value.malformed
    /\ run.loaded.state = Null /\ run.loaded.warning # ""
    /\ \E ctx \in {lastContext} :
          \E id \in matchedIds(ctx) :
             /\ recordedAs(run.input.stateFile.value, storyAt(ctx, id), recordAt(ctx, id))
             /\ recordAt(ctx, id).card.id \in run.fetched
             /\ ~isUnchangedNoop(run.planned, id)

foreignFile(file) ==
    /\ file.kind = "json" /\ file.value.version = 1 /\ ~file.value.malformed
    /\ \/ file.value.boardId # BoardId
       \/ file.value.prdPath # PrdPath
       \/ file.value.mappingSignature # createMappingSignature(Mapping)

\* C8: in an incremental run over a well-formed state file whose boardId,
\* prdPath or mappingSignature is not the run's, loadSyncState returns null
\* with a warning and the run plans exactly what it plans without a state.
C8_ForeignStateDiscarded ==
    (run.ran /\ run.options.incremental /\ foreignFile(run.input.stateFile)) =>
        /\ run.loaded.state = Null
        /\ run.loaded.warning # ""
        /\ sameAsStateless
        /\ ~run.threw => noUnchangedNoop(run.planned)

C8_Witness ==
    /\ Planned /\ run.options.incremental
    /\ foreignFile(run.input.stateFile)
    /\ run.input.stateFile.value.mappingSignature # createMappingSignature(Mapping)
    /\ run.loaded.state = Null /\ run.loaded.warning # ""
    /\ \E ctx \in {lastContext} :
          \E id \in matchedIds(ctx) :
             /\ recordedAs(run.input.stateFile.value, storyAt(ctx, id), recordAt(ctx, id))
             /\ ~isUnchangedNoop(run.planned, id)

(***************************************************************************)
(* Properties of the state file.                                           *)
(***************************************************************************)
\* C9: a run calls saveSyncState only when it is not a dry run, blockWrites
\* did not suppress the apply and no apply step failed.
C9_SavedOnlyWhenApplied ==
    (run.ran /\ run.saveCalled) =>
        /\ ~run.options.dryRun
        /\ ~run.skipped
        /\ ~run.failed

\* C10: from the moment a run calls saveSyncState, a reader of the state file
\* finds the complete content the run started from or the complete new state.
C10_AtomicReplace ==
    (run.ran /\ run.saveCalled) =>
        \/ stateFile = run.input.stateFile
        \/ stateFile = File("json", run.nextState)

(***************************************************************************)
(* Properties of what a run writes.                                        *)
(***************************************************************************)
\* the run step leaves the document, the board and the state file as they are
writesNothing ==
    /\ stories' = stories /\ prdModifiedAt' = prdModifiedAt
    /\ board' = board
    /\ stateFile' = stateFile /\ pc' = "idle"
    /\ ~run'.threw => Len(run'.steps) = 0

hasWrites(plan) == Len(plan.creates) + Len(plan.updates) > 0

\* C11: a run with dryRun issues no write request, leaves the document, the
\* board and the state file unchanged, and returns the plan buildPlan computes
\* for the same inputs without dryRun.
C11_DryRunWritesNothing ==
    [][(IsSync /\ options.dryRun) =>
          /\ writesNothing
          /\ \A wet \in {planOf([options EXCEPT !.dryRun = FALSE], stories,
                                prdModifiedAt, board, run'.loaded.state)} :
                /\ run'.threw = wet.threw
                /\ ~run'.threw => run'.plan = wet.plan]_vars

C11_Witness ==
    /\ Planned /\ run.options.dryRun
    /\ hasWrites(run.plan)
    /\ Len(run.steps) = 0 /\ ~run.saveCalled
    /\ board = run.input.board /\ stories = run.input.stories
    /\ stateFile = run.input.stateFile

\* the run step issues no write request to the board or the document
writesNoData ==
    /\ stories' = stories /\ prdModifiedAt' = prdModifiedAt
    /\ board' = board
    /\ Len(run'.steps) = 0 /\ ~run'.failed

\* C12: a run with blockWrites whose plan holds a conflict, keyed or not,
\* issues no write request to the board or the document, whatever creates and
\* updates the plan lists; no run is applied in part and then stopped by it.
C12_BlockWrites ==
    [][(/\ IsSync /\ options.blockWrites
        /\ ~run'.threw /\ Len(run'.planned.conflicts) > 0) => writesNoData]_vars

C12_Witness ==
    /\ Planned /\ run.options.blockWrites /\ ~run.options.dryRun
    /\ Len(run.planned.conflicts) > 0
    /\ hasWrites(run.planned)
    /\ Len(run.steps) = 0
    /\ board = run.input.board /\ stories = run.input.stories

(***************************************************************************)
(* Properties of the direction of a run.                                   *)
(***************************************************************************)
BoardOps == {"createLabel", "createCard", "updateCard", "upsertChecklist"}

noEntryTo(plan, target) ==
    /\ \A i \in DOMAIN plan.creates : plan.creates[i].target # target
    /\ \A i \in DOMAIN plan.updates : plan.updates[i].target # target

storyOnlyIds(ctx) == (storyIdsOf(ctx) \ uniqueCardIdsOf(ctx)) \ ctx.conflictedIds
cardOnlyIds(ctx) == (uniqueCardIdsOf(ctx) \ storyIdsOf(ctx)) \ ctx.conflictedIds

onlyNoop(plan, id) ==
    /\ Len(EntriesFor(plan.noop, id)) = 1
    /\ Len(EntriesFor(plan.creates, id)) = 0
    /\ Len(EntriesFor(plan.updates, id)) = 0
    /\ Len(ConflictsFor(plan, id)) = 0

towardsDocument ==
    /\ noEntryTo(run.planned, "trello") /\ noEntryTo(run.plan, "trello")
    /\ \A i \in DOMAIN run.steps : run.steps[i].op \notin BoardOps
    /\ board = run.input.board
    /\ \A id \in storyOnlyIds(lastContext) : onlyNoop(run.planned, id)

towardsBoard ==
    /\ noEntryTo(run.planned, "prd") /\ noEntryTo(run.plan, "prd")
    /\ \A i \in DOMAIN run.steps : run.steps[i].op # "writeStories"
    /\ stories = run.input.stories /\ prdModifiedAt = run.input.prdModifiedAt
    /\ \A id \in cardOnlyIds(lastContext) : onlyNoop(run.planned, id)

\* C13: in a run with direction "trello-to-prd" no create or update targets
\* the board, no board request is issued, the board is left as it was and
\* every story without a card is a no-op; in a run with direction
\* "prd-to-trello" no create or update targets the document, writeStories is
\* not called, the document is left as it was and every card without a story
\* is a no-op.
C13_Direction ==
    Planned =>
        /\ run.options.direction = "trello-to-prd" => towardsDocument
        /\ run.options.direction = "prd-to-trello" => towardsBoard

C13_Witness ==
    /\ Planned /\ run.options.direction = "trello-to-prd"
    /\ ~run.options.dryRun /\ ~run.skipped
    /\ storyOnlyIds(lastContext) # {}
    /\ Len(run.steps) > 0
    /\ towardsDocument

(***************************************************************************)
(* Properties of the planner's failures and conflicts.                     *)
(***************************************************************************)
\* C14: buildPlan returns a plan for every document and board: no run ends
\* with an exception thrown while planning.
C14_PlannerNeverThrows == run.ran => ~run.threw

\* a mapping of the pair reports a structural issue: no list for the story's
\* status, no status for the card's list, or several checklists of the name
hasStructuralIssue(pair) ==
    Len(pair.cardMapping.issues) > 0 \/ Len(pair.storyMapping.issues) > 0

conflictOnly(plan, id) ==
    /\ Len(ConflictsFor(plan, id)) > 0
    /\ Len(EntriesFor(plan.updates, id)) = 0
    /\ Len(EntriesFor(plan.noop, id)) = 0

\* C15: a matched pair the planner diffs, one of whose mappings reports a
\* structural issue, has a conflict keyed by its identifier, no update and no
\* no-op.
C15_StructuralIssueIsConflict ==
    Planned =>
        \A ctx \in {lastContext} : \A id \in diffedIds(ctx) :
            \A pair \in {pairAt(ctx, id)} :
                (~pair.threw /\ hasStructuralIssue(pair))
                    => conflictOnly(run.planned, id)

labelNamesOf(labels) == {labels[i].name : i \in DOMAIN labels}

\* the story depends on an identifier whose label is not on the board
lacksLabel(story, labels) ==
    \E i \in DOMAIN story.dependsOn :
        LabelNameOf(story.dependsOn[i]) \notin labelNamesOf(labels)

\* identifiers the loop classifies from a story: not duplicated, not skipped
classifiedStoryIds(ctx) ==
    {id \in storyIdsOf(ctx) \ ctx.conflictedIds :
        id \in matchedIds(ctx) => id \in diffedIds(ctx)}

\* C16: in a two-way run without createMissingLabels, every story the planner
\* classifies that depends on an identifier whose label is not on the board
\* has a conflict keyed by its identifier and neither a create nor an update,
\* with or without a card.
C16_MissingLabelIsConflict ==
    (Planned /\ ~run.options.createMissingLabels
        /\ run.options.direction = "two-way") =>
        \A ctx \in {lastContext} : \A id \in classifiedStoryIds(ctx) :
            lacksLabel(storyAt(ctx, id), run.input.board.labels) =>
                /\ Len(ConflictsFor(run.planned, id)) > 0
                /\ Len(EntriesFor(run.planned.creates, id)) = 0
                /\ Len(EntriesFor(run.planned.updates, id)) = 0

(***************************************************************************)
(* Properties of the labels.                                               *)
(***************************************************************************)
stepsWith(steps, ops) == {i \in DOMAIN steps : steps[i].op \in ops}

CardOps == {"createCard", "updateCard"}

sentLabelIds(step) ==
    IF step.op = "createCard" THEN Range(step.input.labelIds)
    ELSE IF step.op = "updateCard" /\ Has(step.update, "labelIds")
    THEN Range(step.update.labelIds)
    ELSE {}

\* the dependency labels of the plan's board entries that the board lacks
absentLabelNames(plan, labels) ==
    desiredLabelNames(trelloEntriesOf(plan)) \ labelNamesOf(labels)

\* each absent label is created by exactly one request, and nothing else is
createsAbsentOnce(steps, absent) ==
    /\ \A name \in absent :
          Cardinality({i \in stepsWith(steps, {"createLabel"}) :
                          steps[i].name = name}) = 1
    /\ \A i \in stepsWith(steps, {"createLabel"}) : steps[i].name \in absent

labelsFirst(steps) ==
    \A i \in stepsWith(steps, {"createLabel"}) :
        \A k \in stepsWith(steps, CardOps) : i < k

\* the request for the entry's card carries the id the board gave each label
\* that was created for one of the entry's dependencies
sendsCreated(steps, entry, absent, labels) ==
    \A d \in Range(entry.story.dependsOn) :
        LabelNameOf(d) \in absent =>
            \E k \in stepsWith(steps, CardOps) :
                /\ steps[k].id = entry.id
                /\ \E i \in DOMAIN labels :
                      /\ labels[i].name = LabelNameOf(d)
                      /\ labels[i].id \in sentLabelIds(steps[k])

RunApplies == Planned /\ ~run.skipped

\* C17: a run with createMissingLabels that applies a plan with board creates
\* or updates creates every dependency label the board lacks exactly once and
\* no label the board has, before the first createCard or updateCard request;
\* when the run completes, the request for each card carries the ids of the
\* labels created for its story.
C17_MissingLabelsCreated ==
    (/\ RunApplies /\ run.options.createMissingLabels
     /\ Len(trelloEntriesOf(run.planned)) > 0) =>
        \A absent \in {absentLabelNames(run.planned, run.input.board.labels)} :
            /\ createsAbsentOnce(run.steps, absent)
            /\ labelsFirst(run.steps)
            /\ ~run.failed =>
                  \A i \in DOMAIN trelloEntriesOf(run.planned) :
                      sendsCreated(run.steps, trelloEntriesOf(run.planned)[i],
                                   absent, board.labels)

C17_Witness ==
    /\ RunApplies /\ run.options.createMissingLabels /\ ~run.failed
    /\ absentLabelNames(run.planned, run.input.board.labels) # {}
    /\ stepsWith(run.steps, {"createLabel"}) # {}
    /\ stepsWith(run.steps, CardOps) # {}
    /\ \A i \in DOMAIN trelloEntriesOf(run.planned) :
          sendsCreated(run.steps, trelloEntriesOf(run.planned)[i],
                       absentLabelNames(run.planned, run.input.board.labels),
                       board.labels)

\* the card's labels that do not carry the dependency prefix
keptLabelIds(card, labels) ==
    {labelId \in Range(card.labelIds) :
        \A i \in DOMAIN labels :
            labels[i].id = labelId =>
                ~StartsWith(labels[i].name, Mapping.dependsOnLabelPrefix)}

\* the ids of the board labels named after the story's dependencies
dependencyLabelIds(story, labels) ==
    {labels[i].id : i \in {j \in DOMAIN labels :
        \E d \in Range(story.dependsOn) : labels[j].name = LabelNameOf(d)}}

isSortedSet(ids) == ids = sortStrings(ids) /\ Len(ids) = Cardinality(Range(ids))

wantsLabels(cardMapping, story, card, labels) ==
    /\ Range(cardMapping.cardInput.labelIds) =
          keptLabelIds(card, labels) \cup dependencyLabelIds(story, labels)
    /\ isSortedSet(cardMapping.cardInput.labelIds)
    /\ Has(cardMapping.cardUpdate, "labelIds") =>
          /\ cardMapping.cardUpdate.labelIds = cardMapping.cardInput.labelIds
          /\ Range(cardMapping.cardInput.labelIds) # Range(card.labelIds)

\* C18: for every matched pair the planner diffs, the labels buildCardMapping
\* wants on the card are the card's labels without the dependency prefix
\* united with the ids of the board labels named after the story's
\* dependencies, sorted and free of duplicates, and labelIds is in the card
\* update only when that set differs from the card's current set.
C18_DesiredLabelSet ==
    Planned =>
        \A ctx \in {lastContext} : \A id \in diffedIds(ctx) :
            \A pair \in {pairAt(ctx, id)} :
                ~pair.threw =>
                    wantsLabels(pair.cardMapping, storyAt(ctx, id),
                                recordAt(ctx, id).card, run.input.board.labels)

(***************************************************************************)
(* Properties of the cards whose title holds no usable identifier.         *)
(***************************************************************************)
untitledCards(cards) ==
    {cards[i] : i \in {j \in DOMAIN cards :
        parseCardTitle(cards[j].name).status \in {"missing", "ambiguous"}}}

conflictsOfCard(plan, card) ==
    SelectSeq(plan.conflicts,
              LAMBDA entry : \E i \in DOMAIN entry.cards : entry.cards[i].id = card.id)

refersTo(entries, card) ==
    \E i \in DOMAIN entries : Has(entries[i], "card") /\ entries[i].card.id = card.id

writesTo(steps, card) ==
    \E i \in DOMAIN steps : Has(steps[i], "cardId") /\ steps[i].cardId = card.id

leftAside(ctx, plan, steps, card) ==
    /\ Len(conflictsOfCard(plan, card)) = 1
    /\ ~conflictsOfCard(plan, card)[1].keyed
    /\ conflictsOfCard(plan, card)[1].cards = <<card>>
    /\ \A i \in DOMAIN ctx.uniqueCardRecords : ctx.uniqueCardRecords[i].card.id # card.id
    /\ ~refersTo(plan.creates, card)
    /\ ~refersTo(plan.updates, card)
    /\ Len(plan.noop) + Len(plan.creates) + Len(plan.updates)
          <= Cardinality((storyIdsOf(ctx) \cup uniqueCardIdsOf(ctx)) \ ctx.conflictedIds)
    /\ ~writesTo(steps, card)
    /\ \E i \in DOMAIN board.cards : board.cards[i] = card

\* C19: every card whose title parses as 'missing' or 'ambiguous' yields
\* exactly one conflict without identifier whose only card it is; the card is
\* not among the records matched by identifier, is referenced by no create or
\* update, adds no create, update or no-op to those of the identifiers the
\* planner classifies, receives no board request, and is on the board after
\* the run as it was before.
C19_UnparsableTitle ==
    Planned =>
        \A ctx \in {lastContext} :
            \A card \in untitledCards(run.input.board.cards) :
                leftAside(ctx, run.planned, run.steps, card)

C19_Witness ==
    /\ RunApplies /\ ~run.failed
    /\ stepsWith(run.steps, BoardOps) # {}
    /\ \E card \in untitledCards(run.input.board.cards) :
          /\ parseCardTitle(card.name).status = "ambiguous"
          /\ leftAside(lastContext, run.planned, run.steps, card)
    /\ \E card \in untitledCards(run.input.board.cards) :
          parseCardTitle(card.name).status = "missing"

(***************************************************************************)
(* The plan a run returns against the plan as buildPlan built it.          *)
(***************************************************************************)
\* C20: the plan a completed run returns equals, entry by entry (the labelIds
\* of the card inputs and card updates included), the plan createPlan builds
\* from what the run read.
C20_PlanNotMutated ==
    (Planned /\ ~run.failed) => run.plan = run.planned

(***************************************************************************)
(* The order of the entries of a plan.                                     *)
(***************************************************************************)
ascendingById(entries) ==
    \A i \in 1..(Len(entries) - 1) :
        localeCompare(entries[i].id, entries[i + 1].id) <= 0

keyedConflicts(plan) == SelectSeq(plan.conflicts, LAMBDA entry : entry.keyed)

planIsOrdered(plan) ==
    /\ ascendingById(plan.creates)
    /\ ascendingById(plan.updates)
    /\ ascendingById(plan.noop)
    /\ ascendingById(keyedConflicts(plan))

\* the identifiers of the stories, in the order of the document
documentOrder(docStories) == [i \in DOMAIN docStories |-> docStories[i].id]

\* C21: in every plan, as built and as returned, creates, updates and noop are
\* each in ascending order of identifier, and so are the conflicts that carry
\* an identifier among themselves.
C21_PlanOrdered ==
    Planned => planIsOrdered(run.planned) /\ planIsOrdered(run.plan)

C21_Witness ==
    /\ Planned
    /\ documentOrder(run.input.stories) # sortStrings(documentOrder(run.input.stories))
    /\ \E i \in DOMAIN run.planned.creates : \E k \in DOMAIN run.planned.creates :
          i < k /\ run.planned.creates[i].id # run.planned.creates[k].id
    /\ planIsOrdered(run.planned)

(***************************************************************************)
(* The identifier codec on its own: calls of formatId, formatCardTitle and *)
(* parseCardTitle with arguments drawn from samples, and parseCardTitle of *)
(* the title formatCardTitle just returned.                                *)
(***************************************************************************)
MaxNumber == 1001

NumberSamples == [int : -2..MaxNumber, half : {0, 1}]

IdSamples == {"US-001", "US-000", "US-999", "US-01", "US-0001", "us-001", "BAD", ""}

TitleSamples ==
    {"", "First", "a b", " First", "First ", "\tFirst", "a\nb", "see US-002",
     "US-0012", "[x] y", "US-01"}

CardTitleSamples ==
    {"", "Title only", "[US-001] First", "[US-001]  First ", "[US-001] ", "[US-001]",
     "US-001 First", "[US-001] see US-002", "US-001US-002", "[US-002] [US-001] x",
     "x [US-001] y", "[US-0012] y", "[US-001] a\nb", "[US-001] a\n", "[US-01] y",
     "US-001 US-002 US-003", "[us-001] y"}

FormatId ==
    /\ call = NoCall
    /\ \E value \in NumberSamples :
          call' = [op |-> "formatId", value |-> value, result |-> formatId(value)]
    /\ UNCHANGED engineVars

FormatCardTitle ==
    /\ call = NoCall
    /\ \E id \in IdSamples : \E title \in TitleSamples :
          call' = [op |-> "formatCardTitle", id |-> id, title |-> title,
                   result |-> formatCardTitle(id, title)]
    /\ UNCHANGED engineVars

ParseCardTitle ==
    /\ call = NoCall
    /\ \E cardTitle \in CardTitleSamples :
          call' = [op |-> "parseCardTitle", cardTitle |-> cardTitle, roundTrip |-> FALSE,
                   id |-> "", title |-> "", result |-> parseCardTitle(cardTitle)]
    /\ UNCHANGED engineVars

\* parseCardTitle of what formatCardTitle returned
ParseFormatted ==
    /\ call.op = "formatCardTitle"
    /\ ~call.result.threw
    /\ call' = [op |-> "parseCardTitle", cardTitle |-> call.result.value,
                roundTrip |-> TRUE, id |-> call.id, title |-> call.title,
                result |-> parseCardTitle(call.result.value)]
    /\ UNCHANGED engineVars

CodecNext ==
    \/ FormatId
    \/ FormatCardTitle
    \/ ParseCardTitle
    \/ ParseFormatted

CodecSpec == Init /\ [][CodecNext]_vars

(***************************************************************************)
(* Properties of the identifier codec.                                     *)
(***************************************************************************)
\* C22: parseCardTitle of formatCardTitle(id, title), for an identifier the
\* pattern accepts and a title that holds no identifier, is 'ok' with the same
\* identifier and the same title.
C22_RoundTrip ==
    (/\ call.op = "parseCardTitle" /\ call.roundTrip
     /\ Len(IdMatchesFrom(call.title, 1)) = 0) =>
        /\ call.result.status = "ok"
        /\ call.result.id = call.id
        /\ call.result.title = call.title

\* every occurrence of the identifier grammar in the text, left to right
occurrencesOf(text) ==
    LET at == {i \in 1..Len(text) : IdRegexMatchesAt(text, i)}
        RECURSIVE From(_)
        From(i) ==
            IF i > Len(text) THEN <<>>
            ELSE IF i \in at THEN <<SubSeq(text, i, i + IdLength - 1)>> \o From(i + 1)
            ELSE From(i + 1)
    IN From(1)

\* the place of {id} in the template "[{id}] {title}"
inCanonicalPosition(text) ==
    /\ Len(text) >= IdLength + 3
    /\ SubSeq(text, 1, 1) = "["
    /\ IdRegexMatchesAt(text, 2)
    /\ SubSeq(text, IdLength + 2, IdLength + 3) = "] "

expectedStatus(text) ==
    IF Len(occurrencesOf(text)) > 1 THEN "ambiguous"
    ELSE IF Len(occurrencesOf(text)) = 0 THEN "missing"
    ELSE IF ~inCanonicalPosition(text) THEN "missing"
    ELSE "ok"

\* C23: parseCardTitle returns 'ambiguous' with every occurrence, left to
\* right, exactly when the title holds more than one occurrence of the
\* identifier grammar, 'missing' when it holds none or one that is not in the
\* canonical position of the template, and 'ok' otherwise.
C23_ParseStatus ==
    call.op = "parseCardTitle" =>
        /\ call.result.status = expectedStatus(call.cardTitle)
        /\ call.result.status = "ambiguous" =>
              call.result.matches = occurrencesOf(call.cardTitle)

RECURSIVE digitsOf(_)
digitsOf(n) == IF n < 10 THEN 1 ELSE 1 + digitsOf(n \div 10)

DigitValue(c) == CHOOSE d \in 0..9 : SubSeq("0123456789", d + 1, d + 1) = c

\* the number a string of decimal digits denotes
RECURSIVE numberOf(_)
numberOf(text) ==
    IF Len(text) = 0 THEN 0
    ELSE 10 * numberOf(SubSeq(text, 1, Len(text) - 1))
            + DigitValue(SubSeq(text, Len(text), Len(text)))

\* the identifier of a number: the prefix, "-", and Padding digits denoting it
isIdOf(id, n) ==
    /\ Len(id) = Len(Mapping.storyPrefix) + 1 + Padding
    /\ SubSeq(id, 1, Len(Mapping.storyPrefix) + 1) = Mapping.storyPrefix \o "-"
    /\ \A k \in (Len(Mapping.storyPrefix) + 2)..Len(id) : SubSeq(id, k, k) \in Digits
    /\ numberOf(SubSeq(id, Len(Mapping.storyPrefix) + 2, Len(id))) = n

mustFail(value) ==
    \/ value.int < 0
    \/ value.half # 0
    \/ digitsOf(value.int) > Padding

\* C24: formatId throws when the number is negative, is not an integer or has
\* more digits than the padding width; otherwise it returns the prefix, "-"
\* and the number padded with zeros to the width, which the identifier grammar
\* matches and formatCardTitle accepts.
C24_FormatId ==
    call.op = "formatId" =>
        /\ call.result.threw <=> mustFail(call.value)
        /\ ~call.result.threw =>
              /\ isIdOf(call.result.value, call.value.int)
              /\ IdRegexTest(call.result.value)
              /\ \A title \in TitleSamples :
                    ~formatCardTitle(call.result.value, title).threw

C24_Witness ==
    /\ call.op = "formatId"
    /\ call.value = [int |-> 7, half |-> 0]
    /\ ~call.result.threw
    /\ call.result.value = "US-007"

(***************************************************************************)
(* The story fingerprint on its own: the fingerprints of two stories drawn *)
(* from samples, next to the planner's equivalence test.                   *)
(***************************************************************************)
StorySamples ==
    [ id : {"US-001", "US-002"},
      title : {"First", "Second"},
      status : {"open", "done"},
      description : {""},
      dependsOn : {<<>>, <<"US-002">>, <<"US-002", "US-003">>, <<"US-003", "US-002">>,
                   <<"US-002", "US-002">>, <<"us-002", "US-002">>, <<"US-002", "us-002">>},
      acceptanceCriteria : {<<>>, <<"a", "b">>, <<"b", "a">>} ]

CompareFingerprints ==
    /\ call = NoCall
    /\ \E left \in StorySamples : \E right \in StorySamples :
          call' = [op |-> "createStoryFingerprint", left |-> left, right |-> right,
                   leftPrint |-> createStoryFingerprint(left),
                   rightPrint |-> createStoryFingerprint(right),
                   equivalent |-> storiesEquivalent(left, right)]
    /\ UNCHANGED engineVars

FingerprintNext == CompareFingerprints

FingerprintSpec == Init /\ [][FingerprintNext]_vars

(***************************************************************************)
(* Properties of the fingerprint.                                          *)
(***************************************************************************)
timesIn(values, x) == Cardinality({i \in DOMAIN values : values[i] = x})

sameUpToOrder(left, right) ==
    \A x \in Range(left) \cup Range(right) : timesIn(left, x) = timesIn(right, x)

sameContent(left, right) ==
    /\ left.id = right.id
    /\ left.title = right.title
    /\ left.status = right.status
    /\ left.description = right.description
    /\ left.acceptanceCriteria = right.acceptanceCriteria
    /\ sameUpToOrder(left.dependsOn, right.dependsOn)

\* C25: two stories have the same fingerprint exactly when they agree on id,
\* title, status, description, acceptanceCriteria in order and dependsOn up to
\* reordering, and exactly when the planner's storiesEquivalent holds of them.
C25_FingerprintIsContent ==
    call.op = "createStoryFingerprint" =>
        /\ (call.leftPrint = call.rightPrint) <=> sameContent(call.left, call.right)
        /\ (call.leftPrint = call.rightPrint) <=> call.equivalent

C25_Witness ==
    /\ call.op = "createStoryFingerprint"
    /\ call.left.dependsOn = <<"US-002", "US-003">>
    /\ call.right.dependsOn = <<"US-003", "US-002">>
    /\ call.leftPrint = call.rightPrint
    /\ call.equivalent

(***************************************************************************)
(* TrelloBoardAdapter.request (trello-adapter.ts): one request with its    *)
(* retries.  call holds the retry options, the number of retries made      *)
(* (attempts), every outcome of fetch so far, every wait so far and how    *)
(* the request ended.  A Retry-After header is absent, a number of         *)
(* seconds, a date (given by its distance from Date.now() in ms) or text   *)
(* that is neither.                                                        *)
(***************************************************************************)
MaxRetries == 2

BaseDelays == {0, 10}

StatusSamples == {200, 204, 400, 401, 403, 404, 408, 429, 500, 502, 503, 504}

RetryAfterSamples ==
    { [kind |-> "absent"], [kind |-> "text"],
      [kind |-> "seconds", seconds |-> 0], [kind |-> "seconds", seconds |-> 1],
      [kind |-> "seconds", seconds |-> -1],
      [kind |-> "date", inMs |-> 3000], [kind |-> "date", inMs |-> -3000] }

\* the Retry-After headers the responses of a status are sampled with
HeadersFor(status) ==
    IF status \in {429, 503} THEN RetryAfterSamples ELSE {[kind |-> "absent"]}

Max(a, b) == IF a >= b THEN a ELSE b

RECURSIVE Pow2(_)
Pow2(n) == IF n = 0 THEN 1 ELSE 2 * Pow2(n - 1)

\* isRetryableStatus that also retries 400
isRetryableStatusAnd400(status) == status \in {400, 408, 429, 500, 502, 503, 504}

isRetryableStatus(status) == status \in {408, 429, 500, 502, 503, 504}

\* the result is null (NoDelay) or a number of milliseconds
NoDelay == -1

parseRetryAfterMs(header) ==
    IF header.kind = "seconds" THEN Max(0, header.seconds * 1000)
    ELSE IF header.kind = "date" THEN Max(0, header.inMs)
    ELSE NoDelay

\* a backoff that does not grow
backoffMsFlat(baseDelayMs, attempts) == baseDelayMs

backoffMs(baseDelayMs, attempts) == baseDelayMs * Pow2(attempts)

responseDelayMs(baseDelayMs, attempts, response) ==
    LET retryAfterMs == IF response.status = 429 THEN parseRetryAfterMs(response.retryAfter)
                        ELSE NoDelay
    IN IF retryAfterMs # NoDelay /\ retryAfterMs # 0
       THEN Max(backoffMs(baseDelayMs, attempts), retryAfterMs)
       ELSE backoffMs(baseDelayMs, attempts)

ApiError(text, status, retries) ==
    [name |-> "TrelloApiError", text |-> text, status |-> status,
     statesRetries |-> retries > 0, retries |-> retries]

\* one turn of the loop of request on a response that is not ok
onErrorResponse(state, response) ==
    IF response.status \in {401, 403}
    THEN [state EXCEPT !.status = "threw",
                       !.error = ApiError("Invalid Trello token", response.status, 0)]
    ELSE IF isRetryableStatus(response.status) /\ state.attempts < state.maxRetries
    THEN [state EXCEPT !.delays = Append(@, responseDelayMs(state.baseDelayMs,
                                                            state.attempts, response)),
                       !.attempts = @ + 1]
    ELSE IF state.attempts > 0 /\ isRetryableStatus(response.status)
    THEN [state EXCEPT !.status = "threw",
                       !.error = ApiError("Trello API error", response.status,
                                          state.attempts)]
    ELSE [state EXCEPT !.status = "threw",
                       !.error = ApiError("Trello API error", response.status, 0)]

\* one turn of the loop of request when fetch rejects
onFetchFailure(state) ==
    IF state.attempts < state.maxRetries
    THEN [state EXCEPT !.delays = Append(@, backoffMs(state.baseDelayMs, state.attempts)),
                       !.attempts = @ + 1]
    ELSE [state EXCEPT !.status = "threw",
                       !.error = [name |-> "Error", text |-> "Trello request failed",
                                  status |-> 0, statesRetries |-> state.attempts > 0,
                                  retries |-> state.attempts]]

isOk(status) == status >= 200 /\ status <= 299

StartRequest ==
    /\ call = NoCall
    /\ \E maxRetries \in 0..MaxRetries : \E baseDelayMs \in BaseDelays :
          call' = [op |-> "request", maxRetries |-> maxRetries,
                   baseDelayMs |-> baseDelayMs, attempts |-> 0, outcomes |-> <<>>,
                   delays |-> <<>>, status |-> "running", error |-> Null]
    /\ UNCHANGED engineVars

Running == call.op = "request" /\ call.status = "running" /\ call.attempts <= call.maxRetries

FetchResponds ==
    /\ Running
    /\ \E status \in StatusSamples : \E retryAfter \in HeadersFor(status) :
          \E response \in {[kind |-> "response", status |-> status,
                            retryAfter |-> retryAfter]} :
             \E seen \in {[call EXCEPT !.outcomes = Append(@, response)]} :
                call' = IF isOk(status) THEN [seen EXCEPT !.status = "returned"]
                        ELSE onErrorResponse(seen, response)
    /\ UNCHANGED engineVars

FetchFails ==
    /\ Running
    /\ call' = onFetchFailure([call EXCEPT !.outcomes = Append(@, [kind |-> "failure"])])
    /\ UNCHANGED engineVars

RequestNext ==
    \/ StartRequest
    \/ FetchResponds
    \/ FetchFails

RequestSpec == Init /\ [][RequestNext]_vars

(***************************************************************************)
(* Properties of request.                                                  *)
(***************************************************************************)
fetchesOf(state) == Len(state.outcomes)

lastOutcome(state) == state.outcomes[Len(state.outcomes)]

endedBy(state, statuses) ==
    /\ fetchesOf(state) > 0
    /\ lastOutcome(state).kind = "response"
    /\ lastOutcome(state).status \in statuses

NonRetryable == {status \in StatusSamples : ~isOk(status)} \ {408, 429, 500, 502, 503, 504}

\* every fetch before the last one failed or was answered by a retryable status
retriedOnly(state) ==
    \A i \in 1..(Len(state.outcomes) - 1) :
        \/ state.outcomes[i].kind = "failure"
        \/ state.outcomes[i].status \in {408, 429, 500, 502, 503, 504}

exhausted(state) ==
    /\ state.status = "threw"
    /\ fetchesOf(state) = state.maxRetries + 1
    /\ \/ lastOutcome(state).kind = "failure"
       \/ endedBy(state, {408, 429, 500, 502, 503, 504})

attemptsBounded(state) ==
    /\ fetchesOf(state) <= state.maxRetries + 1
    /\ state.status = "running" => fetchesOf(state) = state.attempts
    /\ state.status = "running" => state.attempts <= state.maxRetries
    /\ state.status # "running" => fetchesOf(state) = state.attempts + 1
    /\ retriedOnly(state)

failsFast(state) ==
    /\ endedBy(state, NonRetryable) => state.status = "threw" /\ ~state.error.statesRetries
    /\ endedBy(state, {401, 403}) => state.error.text = "Invalid Trello token"

\* C26 as stated: the number of attempts is bounded by maxRetries + 1, a
\* response with 401, 403 or another status that is not retryable ends the
\* request at once, and a request that gives up after retryable responses or
\* failed fetches rejects with an error that states the number of retries.
C26_GivesUpStatingRetries ==
    call.op = "request" =>
        /\ attemptsBounded(call)
        /\ failsFast(call)
        /\ exhausted(call) =>
              call.error.statesRetries /\ call.error.retries = call.maxRetries

\* C26: the same, where the error states the number of retries when at least
\* one retry was made (maxRetries > 0).
C26_BoundedAttempts ==
    call.op = "request" =>
        /\ attemptsBounded(call)
        /\ failsFast(call)
        /\ (exhausted(call) /\ call.maxRetries > 0) =>
              call.error.statesRetries /\ call.error.retries = call.maxRetries
        /\ (exhausted(call) /\ call.maxRetries = 0) => ~call.error.statesRetries

C26_Witness ==
    /\ call.op = "request"
    /\ call.maxRetries = MaxRetries
    /\ exhausted(call)
    /\ endedBy(call, {503})
    /\ call.outcomes[1].kind = "failure"
    /\ call.error.statesRetries /\ call.error.retries = MaxRetries

twoTo(k) == Cardinality(SUBSET (1..k))

\* the milliseconds of a Retry-After that is positive, 0 for any other header
positiveRetryAfterMs(header) ==
    IF header.kind = "seconds" /\ header.seconds > 0 THEN header.seconds * 1000
    ELSE IF header.kind = "date" /\ header.inMs > 0 THEN header.inMs
    ELSE 0

\* the wait the k-th retry (k from 0) follows, given the outcome it answers
expectedWait(baseDelayMs, k, outcome) ==
    IF outcome.kind = "response" /\ outcome.status = 429
       /\ positiveRetryAfterMs(outcome.retryAfter) > 0
    THEN Max(baseDelayMs * twoTo(k), positiveRetryAfterMs(outcome.retryAfter))
    ELSE baseDelayMs * twoTo(k)

\* C27: the wait before the k-th retry (k = 0 for the first) is baseDelayMs *
\* 2^k, or, after a 429 response with a positive Retry-After, the larger of
\* that and the Retry-After in milliseconds; there is one wait per retry, and
\* a response that is ok, after retries or not, makes the request return.
C27_RetryDelays ==
    call.op = "request" =>
        /\ Len(call.delays) = call.attempts
        /\ \A k \in 0..(Len(call.delays) - 1) :
              call.delays[k + 1] = expectedWait(call.baseDelayMs, k, call.outcomes[k + 1])
        /\ endedBy(call, {200, 204}) => call.status = "returned" /\ call.error = Null

C27_Witness ==
    /\ call.op = "request"
    /\ call.baseDelayMs = 10
    /\ call.status = "returned"
    /\ Len(call.outcomes) = 3
    /\ call.outcomes[1].kind = "response" /\ call.outcomes[1].status = 429
    /\ call.outcomes[1].retryAfter = [kind |-> "seconds", seconds |-> 1]
    /\ call.outcomes[2].kind = "response" /\ call.outcomes[2].status = 502
    /\ call.delays = <<1000, 20>>

(***************************************************************************)
(* TrelloBoardAdapter.upsertChecklist (trello-adapter.ts) request by       *)
(* request.  A checklist item on the board is [id, name, checked]; the     *)
(* requests are createChecklist, setChecklistItemState, createChecklistItem*)
(* and deleteChecklistItem, and the board applies each as it arrives.      *)
(***************************************************************************)
MaxItems == 3

ItemNames == {"a", "b"}

SeqsUpTo(S, n) == UNION {[1..k -> S] : k \in 0..n}

\* the items of a checklist of the board: the i-th has the id "item-i"
ExistingItemSamples ==
    {[i \in DOMAIN items |->
         [id |-> "item-" \o DecimalString(i), name |-> items[i].name,
          checked |-> items[i].checked]] :
       items \in SeqsUpTo([name : ItemNames, checked : BOOLEAN], MaxItems)}

DesiredItemSamples == SeqsUpTo([name : ItemNames, checked : BOOLEAN], MaxItems)

OtherChecklist == [id |-> "cl-other", name |-> "Notes",
                   items |-> <<[id |-> "item-9", name |-> "a", checked |-> FALSE]>>]

\* the checklists of the card: another one, and the named one or not
ChecklistsSamples ==
    {<<OtherChecklist>>}
      \cup {<<OtherChecklist, [id |-> "cl-1", name |-> Mapping.acceptanceCriteriaChecklistName,
                               items |-> items]>> : items \in ExistingItemSamples}

\* the existing item the k-th desired item takes: the first of its name that
\* no earlier desired item took (bucket.shift()), 0 when there is none
RECURSIVE takenBy(_, _, _)
takenBy(existingItems, desiredItems, k) ==
    LET earlier == {takenBy(existingItems, desiredItems, j) : j \in 1..(k - 1)}
        free == {i \in DOMAIN existingItems :
                    existingItems[i].name = desiredItems[k].name /\ i \notin earlier}
    IN IF free = {} THEN 0 ELSE CHOOSE i \in free : \A other \in free : i <= other

\* the requests of the first loop of syncChecklistItems
itemRequestsOf(existingItems, desiredItems) ==
    Flatten([k \in DOMAIN desiredItems |->
        LET i == takenBy(existingItems, desiredItems, k)
        IN IF i = 0
           THEN <<[op |-> "createChecklistItem", id |-> "new-" \o DecimalString(k),
                   name |-> desiredItems[k].name, checked |-> desiredItems[k].checked]>>
           ELSE IF existingItems[i].checked # desiredItems[k].checked
           THEN <<[op |-> "setChecklistItemState", id |-> existingItems[i].id,
                   name |-> existingItems[i].name, checked |-> desiredItems[k].checked]>>
           ELSE <<>>])

\* syncChecklistItems without its second loop
deleteRequestsOfNone(existingItems, desiredItems) == <<>>

\* the requests of the second loop of syncChecklistItems
deleteRequestsOf(existingItems, desiredItems) ==
    LET used == {takenBy(existingItems, desiredItems, k) : k \in DOMAIN desiredItems}
        unused == SelectSeq(existingItems,
                     LAMBDA item : \A i \in used : i = 0 \/ existingItems[i].id # item.id)
    IN [i \in DOMAIN unused |->
           [op |-> "deleteChecklistItem", id |-> unused[i].id, name |-> unused[i].name,
            checked |-> unused[i].checked]]

upsertChecklistRequests(checklists, input) ==
    LET found == {i \in DOMAIN checklists : checklists[i].name = input.name}
        existingItems ==
            IF found = {} THEN <<>>
            ELSE checklists[CHOOSE i \in found : \A other \in found : i <= other].items
    IN (IF found = {}
        THEN <<[op |-> "createChecklist", id |-> "cl-new", name |-> input.name,
                checked |-> FALSE]>>
        ELSE <<>>)
       \o itemRequestsOf(existingItems, input.items)
       \o deleteRequestsOf(existingItems, input.items)

\* what the board does with one request about the checklist with the id
itemsAfterRequest(items, request) ==
    IF request.op = "createChecklistItem"
    THEN Append(items, [id |-> request.id, name |-> request.name,
                        checked |-> request.checked])
    ELSE IF request.op = "setChecklistItemState"
    THEN [i \in DOMAIN items |->
             IF items[i].id = request.id THEN [items[i] EXCEPT !.checked = request.checked]
             ELSE items[i]]
    ELSE IF request.op = "deleteChecklistItem"
    THEN SelectSeq(items, LAMBDA item : item.id # request.id)
    ELSE items

RECURSIVE itemsAfter(_, _)
itemsAfter(items, requests) ==
    IF requests = <<>> THEN items
    ELSE itemsAfter(itemsAfterRequest(items, Head(requests)), Tail(requests))

checklistsAfter(checklists, input, requests) ==
    LET found == {i \in DOMAIN checklists : checklists[i].name = input.name}
        target == IF found = {} THEN Len(checklists) + 1
                  ELSE CHOOSE i \in found : \A other \in found : i <= other
        all == IF found = {}
               THEN Append(checklists, [id |-> "cl-new", name |-> input.name, items |-> <<>>])
               ELSE checklists
    IN [all EXCEPT ![target].items = itemsAfter(@, requests)]

UpsertChecklist ==
    /\ call = NoCall
    /\ \E checklists \in ChecklistsSamples : \E items \in DesiredItemSamples :
         \E input \in {[name |-> Mapping.acceptanceCriteriaChecklistName, items |-> items]} :
            \E requests \in {upsertChecklistRequests(checklists, input)} :
               call' = [op |-> "upsertChecklist", before |-> checklists, input |-> input,
                        requests |-> requests,
                        after |-> checklistsAfter(checklists, input, requests)]
    /\ UNCHANGED engineVars

ChecklistNext == UpsertChecklist

ChecklistSpec == Init /\ [][ChecklistNext]_vars

(***************************************************************************)
(* Properties of upsertChecklist.                                          *)
(***************************************************************************)
namedChecklists(checklists, name) ==
    SelectSeq(checklists, LAMBDA checklist : checklist.name = name)

\* how many items have the name and the state
countOf(items, name, checked) ==
    Cardinality({i \in DOMAIN items : items[i].name = name /\ items[i].checked = checked})

countNamed(items, name) == Cardinality({i \in DOMAIN items : items[i].name = name})

holdsDesired(items, desiredItems) ==
    \A name \in ItemNames : \A checked \in BOOLEAN :
        countOf(items, name, checked) = countOf(desiredItems, name, checked)

requestsFor(requests, op, id) ==
    Cardinality({i \in DOMAIN requests : requests[i].op = op /\ requests[i].id = id})

Min(a, b) == IF a <= b THEN a ELSE b

\* what the claim says of the items the checklist had (none when it was absent)
itemsReconciled(existingItems, desiredItems, afterItems, requests) ==
    LET keptIds == {existingItems[i].id : i \in DOMAIN existingItems}
                      \cap {afterItems[i].id : i \in DOMAIN afterItems}
    IN /\ holdsDesired(afterItems, desiredItems)
       /\ \A name \in ItemNames :
             /\ Cardinality({i \in DOMAIN existingItems :
                                /\ existingItems[i].name = name
                                /\ existingItems[i].id \in keptIds})
                   = Min(countNamed(existingItems, name), countNamed(desiredItems, name))
             /\ Cardinality({i \in DOMAIN requests :
                                /\ requests[i].op = "createChecklistItem"
                                /\ requests[i].name = name})
                   = Max(0, countNamed(desiredItems, name) - countNamed(existingItems, name))
       /\ \A i \in DOMAIN existingItems :
             \E item \in {existingItems[i]} :
                IF item.id \in keptIds
                THEN /\ requestsFor(requests, "deleteChecklistItem", item.id) = 0
                     /\ \E k \in DOMAIN afterItems :
                           /\ afterItems[k].id = item.id
                           /\ afterItems[k].name = item.name
                           /\ requestsFor(requests, "setChecklistItemState", item.id)
                                 = IF afterItems[k].checked # item.checked THEN 1 ELSE 0
                ELSE /\ requestsFor(requests, "deleteChecklistItem", item.id) = 1
                     /\ requestsFor(requests, "setChecklistItemState", item.id) = 0

withoutIds(items) ==
    [i \in DOMAIN items |-> [name |-> items[i].name, checked |-> items[i].checked]]

\* C28: after upsertChecklist the card has one checklist of the name, created
\* when it was absent, holding the desired items as a multiset of names with
\* their states; an existing item whose name is desired is kept, with one
\* change of state if its state differs and none otherwise, a desired item
\* without a remaining match is created, every other existing item is
\* deleted, and the other checklists of the card are left as they were.
C28_UpsertChecklist ==
    call.op = "upsertChecklist" =>
        \A old \in {namedChecklists(call.before, call.input.name)} :
          \A new \in {namedChecklists(call.after, call.input.name)} :
            /\ Len(new) = 1
            /\ requestsFor(call.requests, "createChecklist", "cl-new")
                  = IF Len(old) = 0 THEN 1 ELSE 0
            /\ itemsReconciled(IF Len(old) = 0 THEN <<>> ELSE old[1].items,
                               call.input.items, new[1].items, call.requests)
            /\ withoutIds(new[1].items)
                  = syncChecklistItems(withoutIds(IF Len(old) = 0 THEN <<>> ELSE old[1].items),
                                       call.input.items)
            /\ SelectSeq(call.after, LAMBDA checklist : checklist.name # call.input.name)
                  = SelectSeq(call.before, LAMBDA checklist : checklist.name # call.input.name)

C28_Witness ==
    /\ call.op = "upsertChecklist"
    /\ Len(namedChecklists(call.before, call.input.name)) = 1
    /\ \E i \in DOMAIN call.requests : call.requests[i].op = "setChecklistItemState"
    /\ \E i \in DOMAIN call.requests : call.requests[i].op = "createChecklistItem"
    /\ \E i \in DOMAIN call.requests : call.requests[i].op = "deleteChecklistItem"
    /\ holdsDesired(namedChecklists(call.after, call.input.name)[1].items, call.input.items)


\* ---------------------------------------------------------------------------
\* The PRD document adapter: writeStories on a document with other fields.
\* A JSON object is a function from its field names to their values; the
\* fields the adapter never reads hold the JSON text of their value, which
\* JSON.parse followed by JSON.stringify gives back for the texts sampled
\* here (strings, small integers, objects of these).
\* ---------------------------------------------------------------------------
MaxStories == 2

OwnedFields ==
    {"id", "title", "status", "dependsOn", "description", "acceptanceCriteria"}

PrdStorySamples ==
    { [id |-> id, title |-> title, status |-> status, dependsOn |-> dependsOn,
       description |-> "Updated description",
       acceptanceCriteria |-> <<"Criteria A", "Criteria B">>] :
        id \in {"US-001", "US-002", "US-003"}, title \in {"Story One Updated"},
        status \in {"open", "done"}, dependsOn \in {<<>>, <<"US-000">>} }

ExistingOwned ==
    { [id |-> id, title |-> "Story One", status |-> "open",
       dependsOn |-> <<>>, description |-> "Description",
       acceptanceCriteria |-> <<"Criteria A">>] : id \in {"US-001", "US-002"} }

ExistingStoryObjects ==
    ExistingOwned
    \cup { [id |-> story.id, title |-> story.title, status |-> story.status,
            dependsOn |-> story.dependsOn, description |-> story.description,
            acceptanceCriteria |-> story.acceptanceCriteria,
            startedAt |-> startedAt] :
              story \in ExistingOwned,
              startedAt \in {"\"2026-01-20T00:00:00Z\"", "null"} }
    \cup { [id |-> "US-001", startedAt |-> "\"2026-01-20T00:00:00Z\"",
            passes |-> "true"],
           [title |-> "Story One", startedAt |-> "\"2026-01-20T00:00:00Z\""] }

RootSamples ==
    { [version |-> "1", project |-> "\"ralph-task\"",
       meta |-> "{\"owner\":\"ralph\"}", stories |-> existing] :
          existing \in SeqsUpTo(ExistingStoryObjects, MaxStories) }
    \cup { [stories |-> existing] :
          existing \in SeqsUpTo(ExistingStoryObjects, MaxStories) }
    \cup { [version |-> "1", project |-> "\"ralph-task\""] }

\* The story objects of the document by id, the last one of an id; it throws
\* when stories is not an array or a story has no string id.
mapExistingStories(root) ==
    IF "stories" \notin DOMAIN root
    THEN [threw |-> TRUE, map |-> << >>]
    ELSE IF \E i \in DOMAIN root.stories : "id" \notin DOMAIN root.stories[i]
    THEN [threw |-> TRUE, map |-> << >>]
    ELSE [threw |-> FALSE,
          map |-> [id \in {root.stories[i].id : i \in DOMAIN root.stories} |->
                     root.stories[CHOOSE i \in DOMAIN root.stories :
                         /\ root.stories[i].id = id
                         /\ \A j \in DOMAIN root.stories :
                               root.stories[j].id = id => j <= i]]]

mergeStoryFresh(existing, story) ==
    [field \in OwnedFields |-> story[field]]

mergeStory(existing, story) ==
    [field \in (IF existing = Null THEN {} ELSE DOMAIN existing)
                  \cup OwnedFields |->
        IF field \in OwnedFields THEN story[field] ELSE existing[field]]

\* The document after writeStories(path, written); unchanged when it throws.
writeStories(root, written) ==
    LET existingStories == mapExistingStories(root)
        updatedStories ==
            [i \in DOMAIN written |->
                mergeStory(IF written[i].id \in DOMAIN existingStories.map
                             THEN existingStories.map[written[i].id]
                             ELSE Null,
                           written[i])]
    IN  IF existingStories.threw
        THEN [threw |-> TRUE, root |-> root]
        ELSE [threw |-> FALSE,
              root |-> [field \in DOMAIN root |->
                          IF field = "stories" THEN updatedStories
                          ELSE root[field]]]

WriteStories ==
    /\ call = NoCall
    /\ \E root \in RootSamples, written \in SeqsUpTo(PrdStorySamples, MaxStories) :
          call' = [op |-> "writeStories", before |-> root, stories |-> written,
                   result |-> writeStories(root, written)]
    /\ UNCHANGED engineVars

PrdNext == WriteStories

PrdSpec == Init /\ [][PrdNext]_vars

\* The last story object of the document with this id.
previousOf(root, id) ==
    root.stories[CHOOSE i \in DOMAIN root.stories :
        /\ root.stories[i].id = id
        /\ \A j \in DOMAIN root.stories : root.stories[j].id = id => j <= i]

existedIn(root, id) ==
    \E i \in DOMAIN root.stories : root.stories[i].id = id

\* The fields of an object outside the six the engine owns, with their values.
otherFields(object) ==
    [field \in DOMAIN object \ OwnedFields |-> object[field]]

\* C29: writeStories changes only the six engine-owned fields: the document
\* keeps its top-level fields other than stories with their values, it holds
\* one story per written story in the written order with the written values
\* of id, title, status, dependsOn, description and acceptanceCriteria, and a
\* written story whose id already existed keeps every other field of the
\* existing story with its previous value, while a new story has no other
\* field; a call that throws leaves the document as it was.
C29_WriteStoriesFrame ==
    call.op = "writeStories" =>
        LET before == call.before
            after == call.result.root
        IN  IF call.result.threw
            THEN after = before
            ELSE
            /\ DOMAIN after = DOMAIN before
            /\ \A field \in DOMAIN before \ {"stories"} :
                  after[field] = before[field]
            /\ Len(after.stories) = Len(call.stories)
            /\ \A i \in DOMAIN call.stories :
                  /\ \A field \in OwnedFields :
                        after.stories[i][field] = call.stories[i][field]
                  /\ otherFields(after.stories[i]) =
                        IF existedIn(before, call.stories[i].id)
                        THEN otherFields(previousOf(before, call.stories[i].id))
                        ELSE << >>

\* A document with version, project and meta, where US-001 has startedAt, is
\* written with an updated US-001 and a new US-003.
C29_Witness ==
    /\ call.op = "writeStories"
    /\ ~call.result.threw
    /\ "meta" \in DOMAIN call.before
    /\ Len(call.stories) = 2
    /\ call.stories[1].id = "US-001"
    /\ call.stories[1].status = "done"
    /\ call.stories[2].id = "US-003"
    /\ Len(call.before.stories) = 1
    /\ "startedAt" \in DOMAIN call.before.stories[1]
    /\ call.before.stories[1].id = "US-001"
    /\ "startedAt" \in DOMAIN call.result.root.stories[1]

onlyCardDelta(pair) == ~pair.threw /\ pair.needsCardUpdate /\ ~pair.needsStoryUpdate

onlyStoryDelta(pair) == ~pair.threw /\ pair.needsStoryUpdate /\ ~pair.needsCardUpdate

\* the identifier is in the plan as one update with this target and reason,
\* and nowhere else
onlyUpdate(plan, id, target, reason) ==
    /\ OneUpdateTo(plan, id, target)
    /\ EntriesFor(plan.updates, id)[1].reason = reason
    /\ Len(ConflictsFor(plan, id)) = 0
    /\ Len(EntriesFor(plan.creates, id)) = 0
    /\ Len(EntriesFor(plan.noop, id)) = 0

\* C30: in a two-way run, a matched pair the planner diffs with exactly one
\* non-empty delta has exactly one update in the plan, to the board with the
\* reason "PRD update required" when only the card needs updating and to the
\* document with the reason "Trello update required" when only the story
\* does, and no conflict, create or no-op, whatever the document's
\* lastModifiedAt, the card's lastActivityAt and the prefer setting are.
C30_OneSidedUpdate ==
    (Planned /\ run.options.direction = "two-way") =>
        \A id \in diffedIds(lastContext) :
            /\ onlyCardDelta(pairAt(lastContext, id)) =>
                  onlyUpdate(run.planned, id, "trello", "PRD update required")
            /\ onlyStoryDelta(pairAt(lastContext, id)) =>
                  onlyUpdate(run.planned, id, "prd", "Trello update required")

oneSidedAgainst(id, prefer, sign) ==
    /\ id \in diffedIds(lastContext)
    /\ run.options.prefer = prefer
    /\ pairAt(lastContext, id).timestampComparison * sign > 0

\* A two-way run where only the card of US-001 needs updating although the
\* card is the newer side and prefer is 'trello'.
C30_Witness ==
    /\ Planned
    /\ run.options.direction = "two-way"
    /\ oneSidedAgainst("US-001", "trello", -1)
    /\ onlyCardDelta(pairAt(lastContext, "US-001"))
    /\ OneUpdateTo(run.planned, "US-001", "trello")

\* The mirror case: only the story of some pair needs updating although the
\* document is the newer side.
C30_WitnessStory ==
    /\ Planned
    /\ run.options.direction = "two-way"
    /\ \E id \in diffedIds(lastContext) :
          /\ pairAt(lastContext, id).timestampComparison > 0
          /\ onlyStoryDelta(pairAt(lastContext, id))
          /\ OneUpdateTo(run.planned, id, "prd")


\* ---------------------------------------------------------------------------
\* The planner on its own: createPlan without incremental state, applied to
\* documents and boards drawn from the samples below.
\* ---------------------------------------------------------------------------
ListsSamples ==
    { Lists,
      \* no list named "Done"
      SubSeq(Lists, 1, 2) \o SubSeq(Lists, 4, 4),
      \* two open lists named "To Do", the larger id first
      << [id |-> "list-open-b", name |-> "To Do", closed |-> FALSE] >> \o Lists,
      \* the only list named "In Progress" is archived
      [Lists EXCEPT ![2].closed = TRUE],
      \* an archived "To Do" with a smaller id than the open one, and two
      \* archived lists named "Done"
      << [id |-> "list-a", name |-> "To Do", closed |-> TRUE],
         [id |-> "list-open", name |-> "To Do", closed |-> FALSE],
         [id |-> "list-progress", name |-> "In Progress", closed |-> FALSE],
         [id |-> "list-done-b", name |-> "Done", closed |-> TRUE],
         [id |-> "list-done", name |-> "Done", closed |-> TRUE] >> }

LabelsSamples ==
    { << [id |-> "label-002", name |-> "s:US-002"],
         [id |-> "label-keep", name |-> "priority"] >>,
      \* two labels of the same name, one label whose name is the prefix alone
      << [id |-> "label-002b", name |-> "s:US-002"],
         [id |-> "label-002", name |-> "s:US-002"],
         [id |-> "label-001", name |-> "s:US-001"],
         [id |-> "label-blank", name |-> "s:"] >> }

PlanStory(id, title, status, dependsOn) ==
    [ id |-> id, title |-> title, status |-> status, description |-> "d",
      dependsOn |-> dependsOn, acceptanceCriteria |-> <<"a", "b">> ]

StoriesSamples ==
    { << >>,
      << PlanStory("US-001", "First", "open", <<>>) >>,
      << PlanStory("US-001", "First", "done", <<"US-002">>) >>,
      << PlanStory("US-001", "First", "in_progress", <<"US-003">>) >>,
      << PlanStory("US-002", "Second", "done", <<"US-001">>),
         PlanStory("US-001", "First", "open", <<>>) >>,
      << PlanStory("US-001", "First", "open", <<>>),
         PlanStory("US-001", "Again", "done", <<>>) >> }

PlanCard(id, name, listId, labelIds) ==
    [ id |-> id, name |-> name, description |-> "c", listId |-> listId,
      labelIds |-> labelIds, closed |-> FALSE, lastActivityAt |-> 0 ]

CardsSamples ==
    { << >>,
      << PlanCard("card-1", "[US-001]  First ", "list-done", <<>>) >>,
      << PlanCard("card-2", "[US-002] Second", "list-progress",
                  <<"label-keep", "label-002", "label-001", "label-002b",
                    "label-blank">>) >>,
      << PlanCard("card-2", "[US-002] Second", "list-other", <<"label-002">>) >>,
      << PlanCard("card-3", "[US-003] Third", "list-open", <<>>),
         PlanCard("card-1", "[US-001] First", "list-open", <<"label-002">>) >>,
      << PlanCard("card-3", "[US-003] Third", "list-open", <<>>),
         PlanCard("card-4", "[US-003] Third", "list-open", <<>>) >> }

CardIdsOf(cards) == {cards[i].id : i \in DOMAIN cards}

Criteria(names) ==
    [ name |-> "Acceptance Criteria",
      items |-> [i \in DOMAIN names |-> [name |-> names[i], checked |-> FALSE]] ]

\* what getCardChecklists answers for every card of the board
ChecklistSamples ==
    { << >>,
      << Criteria(<<"b", "a">>) >>,
      << [name |-> "Notes", items |-> <<[name |-> "n", checked |-> TRUE]>>],
         Criteria(<<"a", "b">>) >>,
      << Criteria(<<"a">>), Criteria(<<>>) >> }

PlanOptions ==
    { [DefaultOptions EXCEPT !.direction = direction,
                             !.createMissingLabels = createMissingLabels] :
        direction \in OptionValues.direction, createMissingLabels \in BOOLEAN }

BoardOf(lists, cards, labels, checklists) ==
    [ lists |-> lists, cards |-> cards, labels |-> labels,
      checklistsOf |-> [cardId \in CardIdsOf(cards) |-> checklists] ]

CreatePlan ==
    /\ call = NoCall
    /\ \E opts \in PlanOptions, docStories \in StoriesSamples,
          lists \in ListsSamples, cards \in CardsSamples,
          labels \in LabelsSamples, checklists \in ChecklistSamples :
          call' = [ op |-> "createPlan", options |-> opts, stories |-> docStories,
                    board |-> BoardOf(lists, cards, labels, checklists),
                    result |-> planOf(opts, docStories, 0,
                                      BoardOf(lists, cards, labels, checklists),
                                      Null) ]
    /\ UNCHANGED engineVars

PlanNext == CreatePlan

PlanSpec == Init /\ [][PlanNext]_vars

PlanMade == call.op = "createPlan" /\ ~call.result.threw

\* the context buildPlan derived in the call
callContext ==
    planContext(call.options, [stories |-> call.stories, lastModifiedAt |-> 0],
                call.board.lists, call.board.cards, call.board.labels,
                call.board.checklistsOf, Null)


listIdsOf(lists) == {lists[i].id : i \in DOMAIN lists}

hasMappedList(ctx, story) == Has(ctx.statusMapping.statusToListId, story.status)

\* the identifier has one create, for the board, carrying the card of the story
oneBoardCreate(ctx, plan, id) ==
    /\ Len(EntriesFor(plan.creates, id)) = 1
    /\ Len(ConflictsFor(plan, id)) = 0
    /\ \A entry \in {EntriesFor(plan.creates, id)[1]} :
          /\ entry.target = "trello"
          /\ entry.cardInput.name =
                formatCardTitle(id, storyAt(ctx, id).title).value
          /\ entry.cardInput.description = storyAt(ctx, id).description
          /\ entry.cardInput.listId =
                ctx.statusMapping.statusToListId[storyAt(ctx, id).status]

conflictNoCreate(plan, id) ==
    /\ Len(ConflictsFor(plan, id)) > 0
    /\ Len(EntriesFor(plan.creates, id)) = 0

boardCreatesHaveList(plan, lists) ==
    \A i \in DOMAIN plan.creates :
        plan.creates[i].target = "trello" =>
            /\ plan.creates[i].cardInput.listId # ""
            /\ plan.creates[i].cardInput.listId \in listIdsOf(lists)

\* the plan has nothing but a conflict for a story whose labels are missing
blockedByLabels(ctx, story, labels) ==
    ~ctx.options.createMissingLabels /\ lacksLabel(story, labels)

C31_WitnessNoList ==
    /\ PlanMade
    /\ call.options.direction = "prd-to-trello"
    /\ \E id \in storyOnlyIds(callContext) :
          /\ ~hasMappedList(callContext, storyAt(callContext, id))
          /\ conflictNoCreate(call.result.plan, id)

\* the identifiers named by the dependency labels of the card: the names of
\* the board's labels on the card that are the prefix followed by a name
dependenciesOfCard(card, labels) ==
    { SubSeq(labels[i].name, Len(Mapping.dependsOnLabelPrefix) + 1,
             Len(labels[i].name)) :
        i \in { k \in DOMAIN labels :
                  /\ labels[k].id \in Range(card.labelIds)
                  /\ StartsWith(labels[k].name, Mapping.dependsOnLabelPrefix)
                  /\ Len(labels[k].name) > Len(Mapping.dependsOnLabelPrefix) } }

configuredChecklists(checklists) ==
    SelectSeq(checklists,
        LAMBDA checklist : checklist.name = Mapping.acceptanceCriteriaChecklistName)

itemNamesOf(checklists) ==
    IF Len(configuredChecklists(checklists)) = 0 THEN << >>
    ELSE [i \in DOMAIN configuredChecklists(checklists)[1].items |->
             configuredChecklists(checklists)[1].items[i].name]

hasMappedStatus(ctx, card) == Has(ctx.statusMapping.listIdToStatus, card.listId)

\* the identifier has one create, for the document, carrying the story of the card
oneDocumentCreate(ctx, plan, id, card, labels, checklists) ==
    /\ Len(EntriesFor(plan.creates, id)) = 1
    /\ Len(ConflictsFor(plan, id)) = 0
    /\ \A entry \in {EntriesFor(plan.creates, id)[1]} :
          /\ entry.target = "prd"
          /\ entry.story.id = parseCardTitle(card.name).id
          /\ entry.story.id = id
          /\ entry.story.title = Trim(parseCardTitle(card.name).title)
          /\ entry.story.status = ctx.statusMapping.listIdToStatus[card.listId]
          /\ Range(entry.story.dependsOn) = dependenciesOfCard(card, labels)
          /\ isSortedSet(entry.story.dependsOn)
          /\ entry.story.description = card.description
          /\ entry.story.acceptanceCriteria = itemNamesOf(checklists)

\* C32: under a direction that permits document writes, every card without a
\* story whose identifier no other card carries has exactly one document
\* create whose story has the identifier and trimmed title of the card name,
\* the status of the card's list, the sorted, duplicate-free identifiers of
\* the card's dependency labels, the card's description and the item names of
\* the configured checklist in order, and no conflict; when the card's list
\* has no status or several checklists carry the configured name it has a
\* conflict keyed by the identifier and no create.
C32_CardOnlyCreate ==
    (PlanMade /\ call.options.direction # "prd-to-trello") =>
        \A id \in cardOnlyIds(callContext) :
            \A card \in {recordAt(callContext, id).card} :
                IF /\ hasMappedStatus(callContext, card)
                   /\ Len(configuredChecklists(call.board.checklistsOf[card.id])) <= 1
                THEN oneDocumentCreate(callContext, call.result.plan, id, card,
                                       call.board.labels,
                                       call.board.checklistsOf[card.id])
                ELSE conflictNoCreate(call.result.plan, id)

\* The card "[US-002] Second" on the list of 'in_progress', carrying two
\* labels named s:US-002 and one named s:US-001, with the checklist b, a,
\* becomes a story depending on US-001 and US-002 with the criteria b, a.
C32_Witness ==
    /\ PlanMade
    /\ call.options.direction = "trello-to-prd"
    /\ "US-002" \in cardOnlyIds(callContext)
    /\ Len(EntriesFor(call.result.plan.creates, "US-002")) = 1
    /\ EntriesFor(call.result.plan.creates, "US-002")[1].story.dependsOn
          = <<"US-001", "US-002">>
    /\ EntriesFor(call.result.plan.creates, "US-002")[1].story.acceptanceCriteria
          = <<"b", "a">>
    /\ EntriesFor(call.result.plan.creates, "US-002")[1].story.status = "in_progress"

\* A card on a list without a status and a card with two checklists of the
\* configured name are conflicts.
C32_WitnessConflict ==
    /\ PlanMade
    /\ call.options.direction = "two-way"
    /\ \E id \in cardOnlyIds(callContext) :
          /\ hasMappedStatus(callContext, recordAt(callContext, id).card)
          /\ Len(configuredChecklists(
                    call.board.checklistsOf[recordAt(callContext, id).card.id])) = 2
          /\ conflictNoCreate(call.result.plan, id)

\* the lists among which the status is chosen: the open lists of the name
\* when there is one, otherwise the archived lists of the name
candidateLists(lists, listName) ==
    IF \E i \in DOMAIN lists : lists[i].name = listName /\ ~lists[i].closed
    THEN {i \in DOMAIN lists : lists[i].name = listName /\ ~lists[i].closed}
    ELSE {i \in DOMAIN lists : lists[i].name = listName}

issueKinds(issues, status) ==
    { kind \in {"No", "Multiple"} :
        \E i \in DOMAIN issues :
            issues[i] = kind \o " Trello list" \o (IF kind = "No" THEN "" ELSE "s")
                        \o " found for status '" \o status \o "' ("
                        \o Mapping.statusToList[status] \o ")" }

statusIsChosen(statusMapping, lists, status) ==
    \A candidates \in {candidateLists(lists, Mapping.statusToList[status])} :
        IF candidates = {}
        THEN /\ ~Has(statusMapping.statusToListId, status)
             /\ issueKinds(statusMapping.issues, status) = {"No"}
        ELSE /\ Has(statusMapping.statusToListId, status)
             /\ \E i \in candidates : lists[i].id = statusMapping.statusToListId[status]
             /\ \A i \in candidates :
                   localeCompare(statusMapping.statusToListId[status], lists[i].id) <= 0
             /\ issueKinds(statusMapping.issues, status) =
                   IF Cardinality(candidates) > 1 THEN {"Multiple"} ELSE {}

unkeyedConflicts(plan) == SelectSeq(plan.conflicts, LAMBDA entry : ~entry.keyed)

issuesAreConflicts(statusMapping, plan) ==
    /\ Len(statusMapping.issues) = Cardinality(Range(statusMapping.issues))
    /\ \A i \in DOMAIN statusMapping.issues :
          Cardinality({k \in DOMAIN plan.conflicts :
                          /\ ~plan.conflicts[k].keyed
                          /\ plan.conflicts[k].reason = statusMapping.issues[i]}) = 1

\* C33: for each of the three statuses the planner chooses among the open
\* lists of the configured name, or among the archived ones when none is
\* open, the list with the smallest id; it records a 'Multiple Trello lists'
\* issue exactly when there were several candidates and a 'No Trello list'
\* issue, leaving the status unmapped, exactly when there was none; no other
\* issue is recorded and every issue is the reason of one unkeyed conflict of
\* the plan.
C33_StatusMapping ==
    PlanMade =>
        /\ \A status \in StoryStatus :
              statusIsChosen(callContext.statusMapping, call.board.lists, status)
        /\ Len(callContext.statusMapping.issues) =
              Cardinality({status \in StoryStatus :
                  issueKinds(callContext.statusMapping.issues, status) # {}})
        /\ issuesAreConflicts(callContext.statusMapping, call.result.plan)

\* The board with an archived and an open "To Do" and two archived "Done":
\* 'open' is the open list although its id is larger, 'done' the smaller of
\* the two archived ones with a 'Multiple' issue that is a conflict of the plan.
C33_Witness ==
    /\ PlanMade
    /\ callContext.statusMapping.statusToListId["open"] = "list-open"
    /\ \E i \in DOMAIN call.board.lists : call.board.lists[i].id = "list-a"
    /\ callContext.statusMapping.statusToListId["done"] = "list-done"
    /\ issueKinds(callContext.statusMapping.issues, "done") = {"Multiple"}
    /\ Len(unkeyedConflicts(call.result.plan)) >= 1

\* ---------------------------------------------------------------------------
\* createStatusMapping on its own, for configurations where statuses may
\* share a list name.
\* ---------------------------------------------------------------------------
ListNames == {"To Do", "In Progress", "Done"}

StatusToListSamples == [StoryStatus -> ListNames]

MappedListsSamples ==
    ListsSamples
    \cup { SubSeq(lists, 1, n) : lists \in ListsSamples, n \in 0..2 }

CreateStatusMapping ==
    /\ call = NoCall
    /\ \E lists \in MappedListsSamples, statusToList \in StatusToListSamples :
          call' = [ op |-> "createStatusMapping", lists |-> lists,
                    statusToList |-> statusToList,
                    result |-> createStatusMapping(lists, statusToList) ]
    /\ UNCHANGED engineVars

StatusMappingNext == CreateStatusMapping

StatusMappingSpec == Init /\ [][StatusMappingNext]_vars

statusRoundTrips(statusMapping) ==
    \A status \in DOMAIN statusMapping.statusToListId :
        /\ Has(statusMapping.listIdToStatus, statusMapping.statusToListId[status])
        /\ statusMapping.listIdToStatus[statusMapping.statusToListId[status]] = status

listRoundTrips(statusMapping) ==
    \A listId \in DOMAIN statusMapping.listIdToStatus :
        /\ Has(statusMapping.statusToListId, statusMapping.listIdToStatus[listId])
        /\ statusMapping.statusToListId[statusMapping.listIdToStatus[listId]] = listId

sharesListName(statusToList) ==
    \E s, t \in StoryStatus : s # t /\ statusToList[s] = statusToList[t]

\* C37 as stated: the two maps of createStatusMapping are mutually inverse,
\* whatever the configured list names are.
C37_MutuallyInverse ==
    call.op = "createStatusMapping" =>
        statusRoundTrips(call.result) /\ listRoundTrips(call.result)

\* What holds of the two maps: every mapped list id leads back to itself
\* through its status, and when the three statuses are configured with three
\* different list names every mapped status leads back to itself as well.
C37_InverseWhenDistinct ==
    call.op = "createStatusMapping" =>
        /\ listRoundTrips(call.result)
        /\ ~sharesListName(call.statusToList) => statusRoundTrips(call.result)

C37_Witness ==
    /\ call.op = "createStatusMapping"
    /\ ~sharesListName(call.statusToList)
    /\ DOMAIN call.result.statusToListId = StoryStatus
    /\ Cardinality(DOMAIN call.result.listIdToStatus) = 3
    /\ statusRoundTrips(call.result)

\* the phase of applyPlan a request belongs to
phaseOf(step) ==
    IF step.op = "createLabel" THEN 1
    ELSE IF step.op = "createCard" THEN 2
    ELSE IF step.op = "updateCard" THEN 3
    ELSE IF step.op = "upsertChecklist" THEN (IF step.created THEN 2 ELSE 3)
    ELSE 4

phasesInOrder(steps) ==
    \A i, k \in DOMAIN steps : i < k => phaseOf(steps[i]) <= phaseOf(steps[k])

stepsOfEntry(steps, op, id) == {i \in DOMAIN steps : steps[i].op = op /\ steps[i].id = id}

\* the requests of the board creates: one createCard per create, in the order
\* of the plan, each followed at once by its upsertChecklist when it has criteria
createsAreSent(steps, creates) ==
    /\ \A i \in DOMAIN steps :
          steps[i].op = "createCard" => Len(EntriesFor(creates, steps[i].id)) = 1
    /\ \A k \in DOMAIN creates :
          /\ Cardinality(stepsOfEntry(steps, "createCard", creates[k].id)) = 1
          /\ \A i \in stepsOfEntry(steps, "createCard", creates[k].id) :
                /\ steps[i].input = creates[k].cardInput
                /\ IF Len(creates[k].checklist.items) > 0
                   THEN /\ i + 1 \in DOMAIN steps
                        /\ steps[i + 1].op = "upsertChecklist"
                        /\ steps[i + 1].created
                        /\ steps[i + 1].id = creates[k].id
                        /\ steps[i + 1].checklist = creates[k].checklist
                   ELSE (i + 1 \in DOMAIN steps) =>
                            ~(steps[i + 1].op = "upsertChecklist"
                              /\ steps[i + 1].created)
          /\ \A j \in DOMAIN creates :
                k < j => \A a \in stepsOfEntry(steps, "createCard", creates[k].id),
                            b \in stepsOfEntry(steps, "createCard", creates[j].id) :
                                a < b

updateChecklistSteps(steps, id) ==
    {i \in DOMAIN steps :
        steps[i].op = "upsertChecklist" /\ ~steps[i].created /\ steps[i].id = id}

firstStepOf(steps, id) ==
    CHOOSE i \in DOMAIN steps :
        /\ phaseOf(steps[i]) = 3 /\ steps[i].id = id
        /\ \A k \in DOMAIN steps :
              (phaseOf(steps[k]) = 3 /\ steps[k].id = id) => i <= k

\* the requests of the board updates: an updateCard when the update has
\* fields, at once followed by the upsertChecklist when the update is flagged
updatesAreSent(steps, updates) ==
    /\ \A i \in DOMAIN steps :
          phaseOf(steps[i]) = 3 => Len(EntriesFor(updates, steps[i].id)) = 1
    /\ \A k \in DOMAIN updates :
          /\ Cardinality(stepsOfEntry(steps, "updateCard", updates[k].id)) =
                (IF hasUpdateFields(updates[k].cardUpdate) THEN 1 ELSE 0)
          /\ Cardinality(updateChecklistSteps(steps, updates[k].id)) =
                (IF updates[k].checklistNeedsUpdate THEN 1 ELSE 0)
          /\ \A i \in stepsOfEntry(steps, "updateCard", updates[k].id) :
                /\ steps[i].cardId = updates[k].card.id
                /\ steps[i].update = updates[k].cardUpdate
                /\ updates[k].checklistNeedsUpdate =>
                      i + 1 \in updateChecklistSteps(steps, updates[k].id)
          /\ \A i \in updateChecklistSteps(steps, updates[k].id) :
                /\ steps[i].cardId = updates[k].card.id
                /\ steps[i].checklist = updates[k].checklist
          /\ \A j \in DOMAIN updates :
                (/\ k < j
                 /\ \E i \in DOMAIN steps : phaseOf(steps[i]) = 3 /\ steps[i].id = updates[k].id
                 /\ \E i \in DOMAIN steps : phaseOf(steps[i]) = 3 /\ steps[i].id = updates[j].id)
                    => firstStepOf(steps, updates[k].id) < firstStepOf(steps, updates[j].id)

documentEntries(plan) ==
    TargetEntries(plan.creates, "prd") \o TargetEntries(plan.updates, "prd")

\* at most one writeStories, the last request, sent exactly when the plan has
\* document entries and carrying the story of each of them
documentWrittenLast(steps, plan) ==
    /\ Cardinality(stepsWith(steps, {"writeStories"})) =
          (IF Len(documentEntries(plan)) > 0 THEN 1 ELSE 0)
    /\ \A i \in stepsWith(steps, {"writeStories"}) :
          /\ i = Len(steps)
          /\ \A k \in DOMAIN documentEntries(plan) :
                \E n \in DOMAIN steps[i].stories :
                    steps[i].stories[n] = documentEntries(plan)[k].story

\* the request that failed was a board write and the document is as it was
boardWriteFailed ==
    /\ run.failed
    /\ run.steps[run.done + 1].op # "writeStories"

\* C34: the write requests of a run that applies its plan are, in this order,
\* the createLabel requests, for each board create of the plan its createCard
\* followed at once by its upsertChecklist when it has criteria, for each
\* board update its updateCard (when it has fields) followed at once by its
\* upsertChecklist when flagged, and last one writeStories carrying every
\* document create and update when there is one; the requests are sent one
\* after the other up to the first that fails, and when a board write fails
\* the document is not written.
C34_ApplyOrder ==
    RunApplies =>
        /\ phasesInOrder(run.steps)
        /\ documentWrittenLast(run.steps, run.planned)
        /\ run.done >= Cardinality(stepsWith(run.steps, {"createLabel"})) =>
              /\ createsAreSent(run.steps, TargetEntries(run.plan.creates, "trello"))
              /\ updatesAreSent(run.steps, TargetEntries(run.plan.updates, "trello"))
        /\ boardWriteFailed =>
              /\ stories = run.input.stories
              /\ prdModifiedAt = run.input.prdModifiedAt

\* A run that created a card, filled its checklist and then wrote the document.
C34_Witness ==
    /\ RunApplies /\ ~run.failed
    /\ \E i \in DOMAIN run.steps :
          /\ run.steps[i].op = "createCard"
          /\ i + 2 \in DOMAIN run.steps
          /\ run.steps[i + 1].op = "upsertChecklist"
    /\ run.steps[Len(run.steps)].op = "writeStories"

\* A run whose updateCard failed before the document was to be written.
C34_WitnessFailure ==
    /\ RunApplies /\ boardWriteFailed
    /\ run.steps[Len(run.steps)].op = "writeStories"
    /\ run.steps[run.done + 1].op = "updateCard"

\* what buildPlan returns without a state for the input of a run
statelessOf(ranRun) ==
    planOf(ranRun.options, ranRun.input.stories, ranRun.input.prdModifiedAt,
           ranRun.input.board, Null)

sameOutcome(plan, stateless) ==
    /\ plan.creates = stateless.creates
    /\ plan.updates = stateless.updates
    /\ plan.conflicts = stateless.conflicts

\* C35: a run of syncWithStateFile that follows another run with no edit in
\* between plans the creates, the updates and the conflicts that buildPlan
\* returns without a state for what the run read.
C35_SkipKeepsOutcome ==
    [][(IsSync /\ run.ran) =>
          \A stateless \in {statelessOf(run')} :
              /\ run'.threw = stateless.threw
              /\ ~run'.threw => sameOutcome(run'.planned, stateless.plan)]_vars

\* the state of the last run records the story as it is now
storyUnchangedSince(state, story) ==
    /\ Has(state.storyIndex, story.id)
    /\ state.storyIndex[story.id].fingerprint = createStoryFingerprint(story)

\* the state records the card of the story with an earlier lastActivityAt
cardEditedSince(state, record) ==
    /\ Has(state.cardIndex, record.storyId)
    /\ state.cardIndex[record.storyId].cardId = record.card.id
    /\ state.cardIndex[record.storyId].lastActivityAt # record.card.lastActivityAt

\* matched pairs whose story is as recorded and whose card was edited since
cardEditedIds(ctx, state) ==
    {id \in matchedIds(ctx) :
        /\ storyUnchangedSince(state, storyAt(ctx, id))
        /\ cardEditedSince(state, recordAt(ctx, id))}

noUpdateTo(plan, id, target) ==
    \A i \in DOMAIN plan.updates :
        plan.updates[i].id = id => plan.updates[i].target # target

\* C36: in a two-way run with a valid prior state, a matched pair whose story
\* has the recorded fingerprint and whose card was edited since has no update
\* targeting the board, and when the story mapped from the card differs from
\* the story it has exactly one update, targeting the document, whatever the
\* document's lastModifiedAt is.
C36_CardEditWins ==
    (Planned /\ run.options.direction = "two-way" /\ run.loaded.state # Null) =>
        \A id \in cardEditedIds(lastContext, run.loaded.state) :
            /\ noUpdateTo(run.planned, id, "trello")
            /\ (~pairAt(lastContext, id).threw
                /\ pairAt(lastContext, id).needsStoryUpdate)
                  => OneUpdateTo(run.planned, id, "prd")

\* the same for pairs with both deltas only: the card's name, description,
\* list or labels were edited, not just its checklist's check marks
C36_CardEditWinsBothDeltas ==
    (Planned /\ run.options.direction = "two-way" /\ run.loaded.state # Null) =>
        \A id \in cardEditedIds(lastContext, run.loaded.state) :
            (~pairAt(lastContext, id).threw /\ bothDeltas(pairAt(lastContext, id)))
                => OneUpdateTo(run.planned, id, "prd")

\* checklistNeedsUpdate as buildCardMapping computes it from the checklists
\* of the card and the checklist of the story
checklistNeedsUpdateOf(checklists, checklist) ==
    LET selection == selectChecklist(checklists, checklist.name)
        existingItems == [i \in DOMAIN selection.items |->
                             [name |-> selection.items[i].name,
                              checked |-> selection.items[i].checked]]
    IN IF selection.issue # "" THEN FALSE
       ELSE IF Len(existingItems) = 0 /\ Len(checklist.items) = 0 /\ ~selection.found
       THEN FALSE
       ELSE ~areChecklistItemsEqual(existingItems, checklist.items)

\* the checklist buildChecklistInput makes of a story: every item checked
\* when the story is done, none otherwise
isStoryChecklist(checklist) ==
    \A i, k \in DOMAIN checklist.items :
        checklist.items[i].checked = checklist.items[k].checked

\* C38: when the checklist of a story is flagged checklistNeedsUpdate against
\* the checklists of the card and upsertChecklist has been applied, the
\* checklist of the card holds the story's criteria with the same names, in
\* the same order, with the same checked state, so that the planner no longer
\* flags it.
C38_ChecklistConverges ==
    (/\ call.op = "upsertChecklist"
     /\ isStoryChecklist(call.input)
     /\ checklistNeedsUpdateOf(call.before, call.input)) =>
        ~checklistNeedsUpdateOf(call.after, call.input)

\* What holds: after upsertChecklist the planner flags the checklist again
\* only when its items are the story's criteria in another order.
C38_ConvergesUpToOrder ==
    (/\ call.op = "upsertChecklist"
     /\ isStoryChecklist(call.input)
     /\ checklistNeedsUpdateOf(call.after, call.input)) =>
        \A items \in {selectChecklist(call.after, call.input.name).items} :
            /\ Len(items) = Len(call.input.items)
            /\ \A item \in Range(call.input.items) :
                  Cardinality({i \in DOMAIN items :
                      items[i].name = item.name /\ items[i].checked = item.checked})
                  = Cardinality({i \in DOMAIN call.input.items : call.input.items[i] = item})

\* ---------------------------------------------------------------------------
\* The plan and the order of what the adapters return.
\* ---------------------------------------------------------------------------
Reversed(entries) == [i \in DOMAIN entries |-> entries[Len(entries) + 1 - i]]

\* what an entry of plan.creates or plan.updates has written for it
writePayload(entry, isCreate) ==
    IF entry.target = "prd" THEN [story |-> <<entry.story>>]
    ELSE IF isCreate
    THEN [cardInput |-> <<entry.cardInput>>, checklist |-> <<entry.checklist>>]
    ELSE [cardId |-> <<entry.card.id>>, cardUpdate |-> <<entry.cardUpdate>>,
          checklist |-> IF entry.checklistNeedsUpdate THEN <<entry.checklist>>
                        ELSE <<>>]

\* bucket, target and write payload a plan holds for an identifier
outcomesOf(plan, id) ==
    {[bucket |-> "create", target |-> plan.creates[i].target,
      payload |-> writePayload(plan.creates[i], TRUE)] :
        i \in {k \in DOMAIN plan.creates : plan.creates[k].id = id}}
    \cup {[bucket |-> "update", target |-> plan.updates[i].target,
           payload |-> writePayload(plan.updates[i], FALSE)] :
        i \in {k \in DOMAIN plan.updates : plan.updates[k].id = id}}
    \cup {[bucket |-> "conflict", target |-> "none", payload |-> [none |-> <<>>]] :
        i \in {k \in DOMAIN plan.conflicts :
                  plan.conflicts[k].keyed /\ plan.conflicts[k].id = id}}
    \cup {[bucket |-> "noop", target |-> "none", payload |-> [none |-> <<>>]] :
        i \in {k \in DOMAIN plan.noop : plan.noop[k].id = id}}

\* the identifiers of the stories and of the card titles of the call
callIds ==
    {call.stories[i].id : i \in DOMAIN call.stories}
    \cup {cardRecordsOf(call.board.cards)[i].storyId :
            i \in DOMAIN cardRecordsOf(call.board.cards)}

\* the same stories, lists, cards and labels, each returned in the order of the
\* call or in the opposite order
reorderedInputs ==
    { [stories |-> docStories, lists |-> lists, cards |-> cards, labels |-> labels] :
        docStories \in {call.stories, Reversed(call.stories)},
        lists \in {call.board.lists, Reversed(call.board.lists)},
        cards \in {call.board.cards, Reversed(call.board.cards)},
        labels \in {call.board.labels, Reversed(call.board.labels)} }

planOfReordered(input) ==
    planOf(call.options, input.stories, 0,
           [call.board EXCEPT !.lists = input.lists, !.cards = input.cards,
                              !.labels = input.labels], Null)

samePlanFor(input) ==
    \E other \in {planOfReordered(input)} :
        /\ ~other.threw
        /\ \A id \in callIds : outcomesOf(other.plan, id) = outcomesOf(call.result.plan, id)

\* C39: the plan made from the same stories, lists, cards and labels returned in
\* another order has, for every identifier, the same bucket, the same target
\* and the same write payload.
C39_OrderIndependent ==
    PlanMade => \A input \in reorderedInputs : samePlanFor(input)

\* labels with distinct names: the order of the data does not change the plan
labelNamesDistinct ==
    \A i, k \in DOMAIN call.board.labels :
        call.board.labels[i].name = call.board.labels[k].name => i = k

C39_OrderIndependentDistinctLabels ==
    (PlanMade /\ labelNamesDistinct) => \A input \in reorderedInputs : samePlanFor(input)

\* ---------------------------------------------------------------------------
\* The document written by a run and the document it read.
\* ---------------------------------------------------------------------------
idsOfDocument(docStories) == {docStories[i].id : i \in DOMAIN docStories}

\* the stories read stay where they are; one without a document entry in the
\* plan is written as it was read, one with an update as the update has it
existingKept(existing, written, entries) ==
    /\ Len(written) >= Len(existing)
    /\ \A n \in DOMAIN existing :
          /\ written[n].id = existing[n].id
          /\ Len(EntriesFor(entries, existing[n].id)) = 0 => written[n] = existing[n]
          /\ \A k \in DOMAIN entries :
                entries[k].id = existing[n].id => written[n] = entries[k].story

\* the stories after those read are the created ones in ascending order
createdAppended(existing, written, creates) ==
    /\ \A n \in (Len(existing) + 1)..Len(written) :
          /\ written[n].id \notin idsOfDocument(existing)
          /\ \E k \in DOMAIN creates :
                creates[k].id = written[n].id /\ creates[k].story = written[n]
          /\ \A m \in (n + 1)..Len(written) :
                localeCompare(written[n].id, written[m].id) < 0
    /\ \A k \in DOMAIN creates :
          \E n \in (Len(existing) + 1)..Len(written) : written[n] = creates[k].story

\* C40: the stories a run passes to writeStories are the stories it read, each
\* at its position, unchanged when the plan has no document create or update
\* for it and replaced by the story of its update otherwise, followed by the
\* stories of the document creates in ascending order of identifier.
C40_ExistingStoriesKept ==
    RunApplies =>
        \A i \in stepsWith(run.steps, {"writeStories"}) :
            /\ existingKept(run.input.stories, run.steps[i].stories,
                            documentEntries(run.planned))
            /\ createdAppended(run.input.stories, run.steps[i].stories,
                               TargetEntries(run.planned.creates, "prd"))

\* A run that writes a document in which it replaces a story it read, leaves
\* another as read and appends a created one.
C40_Witness ==
    /\ RunApplies
    /\ \E i \in stepsWith(run.steps, {"writeStories"}) :
          /\ Len(run.steps[i].stories) > Len(run.input.stories)
          /\ \E n \in DOMAIN run.input.stories :
                run.steps[i].stories[n] # run.input.stories[n]
          /\ \E n \in DOMAIN run.input.stories :
                run.steps[i].stories[n] = run.input.stories[n]

\* A run that writes a document in which a story without an entry keeps its
\* place before a story that sorts before it.
C40_WitnessUnsorted ==
    /\ RunApplies
    /\ \E i \in stepsWith(run.steps, {"writeStories"}) :
          \E n, m \in DOMAIN run.steps[i].stories :
              /\ n < m
              /\ localeCompare(run.steps[i].stories[n].id,
                               run.steps[i].stories[m].id) > 0
=============================================================================
